---- MODULE Spec2Model ----
(***************************************************************************)
(* Terrain3D geometric clipmap: the mesh generator (GeoClipMap::generate)  *)
(* and the instancer (Terrain3D::ready / initialize / build / process /    *)
(* snap).                                                                  *)
(*                                                                         *)
(* Real numbers (f32) are fixed-point integers counting tenths of a world  *)
(* unit: every literal of the source (0.1, 0.2, 0.5, 1.0) and every value  *)
(* the model feeds it is a multiple of one tenth, and the arithmetic done  *)
(* on them (sums, products and quotients by powers of two, floor) is exact *)
(* in f32 over the modelled range.                                         *)
(***************************************************************************)
EXTENDS Integers, Sequences, FiniteSets, TLC

VARIABLES
    g_size,      \* generate: p_size
    g_levels,    \* generate: p_levels
    g_block,     \* generate: the mesh block being built (a MeshType ordinal in build order)
    g_phase,     \* generate: position inside the block
    g_vertices,  \* generate: the local `vertices`
    g_indices,   \* generate: the local `indices`
    g_n,         \* generate: the write cursor `n`
    g_aabb,      \* generate: the local `aabb`
    g_rs,        \* meshes created on the rendering server by create_mesh, in creation order
    g_ret,       \* generate: the returned Vec<Rid> (positions in g_rs)
    mesh_size,             \* Terrain3D.mesh_size
    mesh_lods,             \* Terrain3D.mesh_lods
    initialized,           \* Terrain3D.initialized
    material,              \* Terrain3D.material is Some
    storage,               \* Terrain3D.storage is Some
    camera,                \* Terrain3D.camera: "none", "valid" or "freed" (Some, instance no longer valid)
    camera_last_position,  \* Terrain3D.camera_last_position, <<x, z>>
    meshes,                \* Terrain3D.meshes: mesh rids
    data,                  \* Terrain3D.data: Instances
    processing,            \* base().is_processing()
    cam_pos,               \* the camera position the last camera update read
    rs_meshes,             \* rendering server: the meshes, by rid
    rs_instances,          \* rendering server: the instances, by rid
    failed_builds,         \* build attempts that returned Err
    last_op                \* the last step taken

gvars == <<g_size, g_levels, g_block, g_phase, g_vertices, g_indices, g_n, g_aabb, g_rs, g_ret>>

tvars == <<mesh_size, mesh_lods, initialized, material, storage, camera, camera_last_position,
           meshes, data, processing, cam_pos, rs_meshes,
           rs_instances, failed_builds, last_op>>

vars == <<gvars, tvars>>

(***************************************************************************)
(* Bounds of the model.                                                    *)
(***************************************************************************)
MaxGenSize == 3        \* generate: largest p_size
MaxGenLevels == 3      \* generate: largest p_levels
MaxCam == 2            \* camera coordinates span -1..MaxCam world units
MaxFine == 3           \* and the tenths 1..MaxFine around the origin
CamHeight == 25        \* the height of a raised camera, in tenths: neither zero nor whole
MaxFailedBuilds == 1   \* build attempts that may fail before one succeeds

\* Fixed-point units per world unit.
FX == 10

(***************************************************************************)
(* MeshType ordinals.                                                      *)
(***************************************************************************)
TILE == 0
FILLER == 1
TRIM == 2
CROSS == 3
SEAM == 4

\* discriminants that start at 1 and wrap: C14 tells them from Ord
Ord_shifted(t) == (t + 1) % 5

\* MeshType::ord
Ord(t) == t

(***************************************************************************)
(* Vectors, boxes, packed arrays.                                          *)
(***************************************************************************)
Zero3 == <<0, 0, 0>>

\* Vector3::new on whole world-unit coordinates
V3(x, y, z) == <<x * FX, y * FX, z * FX>>

Min2(a, b) == IF a < b THEN a ELSE b
Max2(a, b) == IF a > b THEN a ELSE b

\* Aabb::expand(self, to) -> Aabb: a copy of the box grown to hold `to`
AabbExpand(box, v) ==
    LET lo == [k \in 1..3 |-> Min2(box.position[k], v[k])]
        hi == [k \in 1..3 |-> Max2(box.position[k] + box.size[k], v[k])]
    IN  [position |-> lo, size |-> [k \in 1..3 |-> hi[k] - lo[k]]]

\* The statement `aabb.expand(v);` on the immutable binding `aabb`: the
\* expanded copy is dropped and `aabb` keeps its value.
ExpandStmt(box, v) == box

RECURSIVE ExpandAll(_, _)
\* the `aabb.expand(vertices_mut[n]);` statements of one block, in order
ExpandAll(box, vs) ==
    IF vs = <<>> THEN box ELSE ExpandAll(ExpandStmt(box, Head(vs)), Tail(vs))

\* Aabb contains the point (faces included)
AabbHas(box, v) ==
    \A k \in 1..3 : box.position[k] <= v[k] /\ v[k] <= box.position[k] + box.size[k]

\* PackedArray::resize on a fresh array: len default elements
Resized(len, dflt) == [k \in 1..len |-> dflt]

RECURSIVE ConcatRange(_, _, _)
\* ss[lo] \o ... \o ss[hi]
ConcatRange(ss, lo, hi) ==
    IF lo > hi THEN <<>>
    ELSE IF lo = hi THEN ss[lo]
    ELSE LET mid == (lo + hi) \div 2
         IN  ConcatRange(ss, lo, mid) \o ConcatRange(ss, mid + 1, hi)

\* the emissions of the iterations of a loop, one after the other
Concat(ss) == ConcatRange(ss, 1, Len(ss))

\* `slice[n] = v; n += 1;` for each v of vals, n starting at 0.  A write at
\* n >= len panics (ok = FALSE).
WriteSeq(buf, vals) ==
    [buf |-> [k \in 1..Len(buf) |-> IF k <= Len(vals) THEN vals[k] ELSE buf[k]],
     n   |-> Min2(Len(vals), Len(buf) + 1),
     ok  |-> Len(vals) <= Len(buf)]

RECURSIVE ApplyWrites(_, _)
\* `n = idx; slice[n] = v;` for each <<idx, v>> of ws.
ApplyWrites(st, ws) ==
    IF ws = <<>> \/ ~st.ok THEN st
    ELSE LET w == Head(ws)
         IN  ApplyWrites(
                 IF w[1] < Len(st.buf)
                 THEN [buf |-> [st.buf EXCEPT ![w[1] + 1] = w[2]], n |-> w[1], ok |-> TRUE]
                 ELSE [buf |-> st.buf, n |-> w[1], ok |-> FALSE],
                 Tail(ws))

(***************************************************************************)
(* GeoClipMap::generate, block by block.                                   *)
(***************************************************************************)
patch_vert_resolution(T) == T + 1
clipmap_resolution(T) == T * 4 + 1
clipmap_vert_resolution(T) == clipmap_resolution(T) + 1

\* column-major numbering: C20 tells it from patch_2d
patch_2d_transposed(x, y, res) == x * res + y

patch_2d(x, y, res) == y * res + x

\* ---- tile ----
TileVertexEmit(T) ==
    LET P == patch_vert_resolution(T)
    IN  Concat([yy \in 1..P |-> [xx \in 1..P |-> V3(xx - 1, 0, yy - 1)]])

TileIndexEmit(T) ==
    LET P == patch_vert_resolution(T)
    IN  Concat([yy \in 1..T |-> Concat([xx \in 1..T |->
            LET x == xx - 1
                y == yy - 1
            IN  << patch_2d(x, y, P), patch_2d(x + 1, y + 1, P), patch_2d(x, y + 1, P),
                   patch_2d(x, y, P), patch_2d(x + 1, y, P), patch_2d(x + 1, y + 1, P) >>])])

TileAabb(T) ==
    LET P == patch_vert_resolution(T)
    IN  [position |-> Zero3, size |-> <<P * FX, 1, P * FX>>]

\* ---- filler ----
FillerVertexEmit(T) ==
    LET P == patch_vert_resolution(T)
        offset == T
    IN  Concat([ii \in 1..P |-> LET i == ii - 1 IN
            << V3(offset + i + 1, 0, 0), V3(offset + i + 1, 0, 1) >>])
        \o Concat([ii \in 1..P |-> LET i == ii - 1 IN
            << V3(1, 0, offset + i + 1), V3(0, 0, offset + i + 1) >>])
        \o Concat([ii \in 1..P |-> LET i == ii - 1 IN
            << V3(-(offset + i), 0, 1), V3(-(offset + i), 0, 0) >>])
        \o Concat([ii \in 1..P |-> LET i == ii - 1 IN
            << V3(0, 0, -(offset + i)), V3(1, 0, -(offset + i)) >>])

\* quads numbered straight through the vertex pairs, bridging the arms: C21
\* tells it from FillerIndexEmit
FillerIndexEmit_bridging(T) ==
    Concat([ii \in 1..(T * 4) |->
        LET i == ii - 1
            arm == i \div T
            bl == i * 2 + 0
            br == i * 2 + 1
            tl == i * 2 + 2
            tr == i * 2 + 3
        IN  IF arm % 2 = 0
            THEN << br, bl, tr, bl, tl, tr >>
            ELSE << br, bl, tl, br, tl, tr >>])

FillerIndexEmit(T) ==
    Concat([ii \in 1..(T * 4) |->
        LET i == ii - 1
            arm == i \div T
            bl == (arm + i) * 2 + 0
            br == (arm + i) * 2 + 1
            tl == (arm + i) * 2 + 2
            tr == (arm + i) * 2 + 3
        IN  IF arm % 2 = 0
            THEN << br, bl, tr, bl, tl, tr >>
            ELSE << br, bl, tl, br, tl, tr >>])

\* ---- trim ----
\* an offset of half the side without the extra half unit: C24 tells it from
\* TrimOffset
TrimOffset_unpadded(T) ==
    LET C == clipmap_vert_resolution(T)
    IN  << (C * FX) \div 2, 0, (C * FX) \div 2 >>

\* `offset`: 0.5 * (clipmap_vert_resolution + 1) on X and Z
TrimOffset(T) ==
    LET C == clipmap_vert_resolution(T)
    IN  << ((C + 1) * FX) \div 2, 0, ((C + 1) * FX) \div 2 >>

Sub3(a, b) == << a[1] - b[1], a[2] - b[2], a[3] - b[3] >>
Add3(a, b) == << a[1] + b[1], a[2] + b[2], a[3] + b[3] >>

TrimVertexEmit(T) ==
    LET C == clipmap_vert_resolution(T)
        offset == TrimOffset(T)
    IN  Concat([ii \in 1..(C + 1) |-> LET i == ii - 1 IN
            << Sub3(V3(0, 0, C - i), offset), Sub3(V3(1, 0, C - i), offset) >>])
        \o Concat([ii \in 1..C |-> LET i == ii - 1 IN
            << Sub3(V3(i + 1, 0, 0), offset), Sub3(V3(i + 1, 0, 1), offset) >>])

\* start_of_horizontal: the cursor after the vertical arm
TrimStartOfHorizontal(T) == (clipmap_vert_resolution(T) + 1) * 2

TrimIndexEmit(T) ==
    LET C == clipmap_vert_resolution(T)
        s == TrimStartOfHorizontal(T)
    IN  Concat([ii \in 1..C |-> LET i == ii - 1 IN
            << (i + 0) * 2 + 1, (i + 0) * 2 + 0, (i + 1) * 2 + 0,
               (i + 1) * 2 + 1, (i + 0) * 2 + 1, (i + 1) * 2 + 0 >>])
        \o Concat([ii \in 1..(C - 1) |-> LET i == ii - 1 IN
            << s + (i + 0) * 2 + 1, s + (i + 0) * 2 + 0, s + (i + 1) * 2 + 0,
               s + (i + 1) * 2 + 1, s + (i + 0) * 2 + 1, s + (i + 1) * 2 + 0 >>])

\* ---- cross ----
\* strips that start one unit earlier: C23 tells it from CrossVertexEmit
CrossVertexEmit_shifted(T) ==
    LET P == patch_vert_resolution(T)
    IN  Concat([ii \in 1..(P * 2) |-> LET i == ii - 1 IN
            << V3(i - T - 1, 0, 0), V3(i - T - 1, 0, 1) >>])
        \o Concat([ii \in 1..(P * 2) |-> LET i == ii - 1 IN
            << V3(0, 0, i - T - 1), V3(1, 0, i - T - 1) >>])

CrossVertexEmit(T) ==
    LET P == patch_vert_resolution(T)
    IN  Concat([ii \in 1..(P * 2) |-> LET i == ii - 1 IN
            << V3(i - T, 0, 0), V3(i - T, 0, 1) >>])
        \o Concat([ii \in 1..(P * 2) |-> LET i == ii - 1 IN
            << V3(0, 0, i - T), V3(1, 0, i - T) >>])

\* start_of_vertical: the cursor after the X strip
CrossStartOfVertical(T) == patch_vert_resolution(T) * 2 * 2

\* a Z strip that leaves out the quad after the centre one instead: C8 tells
\* it from CrossSkips
CrossSkips_late(i, T) == i = T + 1

\* the `if i == tile_resolution { continue; }` of the Z strip
CrossSkips(i, T) == i = T

CrossIndexEmit(T) ==
    LET s == CrossStartOfVertical(T)
    IN  Concat([ii \in 1..(T * 2 + 1) |->
            LET i == ii - 1
                bl == i * 2 + 0
                br == i * 2 + 1
                tl == i * 2 + 2
                tr == i * 2 + 3
            IN  << br, bl, tr, bl, tl, tr >>])
        \o Concat([ii \in 1..(T * 2 + 1) |->
            LET i == ii - 1
                bl == i * 2 + 0
                br == i * 2 + 1
                tl == i * 2 + 2
                tr == i * 2 + 3
            IN  IF CrossSkips(i, T) THEN <<>>
                ELSE << s + br, s + tr, s + bl, s + bl, s + tr, s + tl >>])

\* ---- seam ----
\* the indexed writes `n = clipmap_resolution * k + i; vertices_mut[n] = ...`
SeamVertexWrites(T) ==
    LET R == clipmap_resolution(T)
        C == clipmap_vert_resolution(T)
    IN  Concat([ii \in 1..C |-> LET i == ii - 1 IN
            << << R * 0 + i, V3(i, 0, 0) >>,
               << R * 1 + i, V3(C, 0, i) >>,
               << R * 2 + i, V3(C - i, 0, C) >>,
               << R * 3 + i, V3(0, 0, C - i) >> >>])

SeamVertexEmit(T) == [k \in 1..Len(SeamVertexWrites(T)) |-> SeamVertexWrites(T)[k][2]]

\* (0..4*C).step_by(2)
SeamIndexEmit(T) ==
    LET C == clipmap_vert_resolution(T)
    IN  Concat([ii \in 1..((C * 4 + 1) \div 2) |-> LET i == (ii - 1) * 2 IN
            << i + 1, i, i + 2 >>])

\* a seam whose last index is left as the fan wrote it: C6 tells it from
\* SeamWrapLast
SeamWrapLast_missing(st) == st

\* `indices_mut[indices_mut.len() - 1] = 0;` (panics on an empty slice)
SeamWrapLast(st) ==
    IF ~st.ok THEN st
    ELSE IF Len(st.buf) = 0 THEN [st EXCEPT !.ok = FALSE]
    ELSE [st EXCEPT !.buf[Len(st.buf)] = 0]

(***************************************************************************)
(* The vertex phase and the index phase of each block: the buffer, the     *)
(* cursor after the loops, and whether every write was in range.           *)
(***************************************************************************)
VertexPhase(b, T) ==
    LET P == patch_vert_resolution(T)
        C == clipmap_vert_resolution(T)
    IN  CASE b = TILE   -> WriteSeq(Resized(P * P, Zero3), TileVertexEmit(T))
          [] b = FILLER -> WriteSeq(Resized(P * 8, Zero3), FillerVertexEmit(T))
          [] b = TRIM   -> WriteSeq(Resized((C * 2 + 1) * 2, Zero3), TrimVertexEmit(T))
          [] b = CROSS  -> WriteSeq(Resized(P * 8, Zero3), CrossVertexEmit(T))
          [] b = SEAM   -> ApplyWrites([buf |-> Resized(C * 4, Zero3), n |-> 0, ok |-> TRUE],
                                       SeamVertexWrites(T))

\* the vertices handed to aabb.expand while the block's vertex loops run
ExpandedVertices(b, T) ==
    CASE b = TILE   -> <<>>
      [] b = FILLER -> FillerVertexEmit(T)
      [] b = TRIM   -> TrimVertexEmit(T)
      [] b = CROSS  -> CrossVertexEmit(T)
      [] b = SEAM   -> SeamVertexEmit(T)

IndexPhase(b, T) ==
    LET C == clipmap_vert_resolution(T)
    IN  CASE b = TILE   -> WriteSeq(Resized(T * T * 6, 0), TileIndexEmit(T))
          [] b = FILLER -> WriteSeq(Resized(T * 24, 0), FillerIndexEmit(T))
          [] b = TRIM   -> WriteSeq(Resized((C * 2 - 1) * 6, 0), TrimIndexEmit(T))
          [] b = CROSS  -> WriteSeq(Resized(T * 24 + 6, 0), CrossIndexEmit(T))
          [] b = SEAM   -> SeamWrapLast(WriteSeq(Resized(C * 6, 0), SeamIndexEmit(T)))

\* the box handed to create_mesh by block b, `box` being the value of `aabb`
\* when the block starts
BlockAabb(b, T, box) ==
    IF b = TILE THEN TileAabb(T) ELSE ExpandAll(box, ExpandedVertices(b, T))

\* create_mesh: the surface registered on the rendering server
create_mesh(p_vertices, p_indices, p_aabb) ==
    [vertices |-> p_vertices, indices |-> p_indices, aabb |-> p_aabb]

\* the blocks in the order generate runs them
BlockOrder == << TILE, FILLER, TRIM, CROSS, SEAM >>

\* the meshes returned in the order trim, cross swapped: C5 tells it from
\* ReturnOrder
ReturnOrder_swapped == << 1, 2, 4, 3, 5 >>

\* vec![tile_mesh, filler_mesh, trim_mesh, cross_mesh, seam_mesh], as
\* positions in the order of creation
ReturnOrder == << 1, 2, 3, 4, 5 >>

(***************************************************************************)
(* Terrain3D: the state after construction (INode3D::init).                *)
(***************************************************************************)
DefaultMeshSize == 48
DefaultMeshLods == 7

\* f32::MAX, the "force a snap" value of camera_last_position.  A stand-in
\* beyond every camera coordinate of the model: in f32 the squared
\* difference overflows to +inf, whose root compares greater than the
\* threshold as the stand-in's distance does.
F32_MAX == 30000

\* Instances::default()
NoInstances == [cross |-> 0, tiles |-> <<>>, fillers |-> <<>>, trims |-> <<>>, seams |-> <<>>]

TerrainConstructed ==
    /\ initialized = FALSE
    /\ material = FALSE
    /\ storage = FALSE
    /\ camera = "none"
    /\ camera_last_position = << F32_MAX, F32_MAX >>
    /\ meshes = <<>>
    /\ data = NoInstances
    /\ processing = FALSE
    /\ cam_pos = Zero3
    /\ rs_meshes = <<>>
    /\ rs_instances = <<>>
    /\ failed_builds = 0
    /\ last_op = "init"

(***************************************************************************)
(* generate as a step machine: per block, the vertex loops, the index      *)
(* loops, then create_mesh; after the last block, the return.              *)
(***************************************************************************)
\* generate is public and takes any i32 for p_levels, 0 included
GenInit ==
    /\ g_size \in 1..MaxGenSize
    /\ g_levels \in 0..MaxGenLevels
    /\ g_block = 1
    /\ g_phase = "vertices"
    /\ g_vertices = <<>>
    /\ g_indices = <<>>
    /\ g_n = 0
    /\ g_aabb = [position |-> Zero3, size |-> Zero3]
    /\ g_rs = <<>>
    /\ g_ret = <<>>
    /\ mesh_size = DefaultMeshSize
    /\ mesh_lods = DefaultMeshLods
    /\ TerrainConstructed

\* `vertices.resize(..)`, `indices.resize(..)`, `n = 0` and the vertex loops
GenVertices ==
    /\ g_phase = "vertices"
    /\ LET b == BlockOrder[g_block]
           st == VertexPhase(b, g_size)
       IN  /\ g_vertices' = st.buf
           /\ g_n' = st.n
           /\ g_aabb' = IF b = TILE THEN g_aabb
                        ELSE ExpandAll(g_aabb, ExpandedVertices(b, g_size))
           /\ g_phase' = IF st.ok THEN "indices" ELSE "panic"
    /\ UNCHANGED <<g_size, g_levels, g_block, g_indices, g_rs, g_ret>>
    /\ UNCHANGED tvars

\* `n = 0` and the index loops
GenIndices ==
    /\ g_phase = "indices"
    /\ LET b == BlockOrder[g_block]
           st == IndexPhase(b, g_size)
       IN  /\ g_indices' = st.buf
           /\ g_n' = st.n
           /\ g_phase' = IF st.ok THEN "create" ELSE "panic"
    /\ UNCHANGED <<g_size, g_levels, g_block, g_vertices, g_aabb, g_rs, g_ret>>
    /\ UNCHANGED tvars

\* `Self::create_mesh(vertices, indices, &aabb)`; the tile block binds
\* `aabb` just before
GenCreateMesh ==
    /\ g_phase = "create"
    /\ LET b == BlockOrder[g_block]
           box == IF b = TILE THEN TileAabb(g_size) ELSE g_aabb
       IN  /\ g_aabb' = box
           /\ g_rs' = Append(g_rs, create_mesh(g_vertices, g_indices, box))
    /\ IF g_block < Len(BlockOrder)
       THEN g_block' = g_block + 1 /\ g_phase' = "vertices"
       ELSE g_block' = g_block /\ g_phase' = "return"
    /\ UNCHANGED <<g_size, g_levels, g_vertices, g_indices, g_n, g_ret>>
    /\ UNCHANGED tvars

\* `vec![tile_mesh, filler_mesh, trim_mesh, cross_mesh, seam_mesh]`
GenReturn ==
    /\ g_phase = "return"
    /\ g_ret' = ReturnOrder
    /\ g_phase' = "done"
    /\ UNCHANGED <<g_size, g_levels, g_block, g_vertices, g_indices, g_n, g_aabb, g_rs>>
    /\ UNCHANGED tvars

GenNext == GenVertices \/ GenIndices \/ GenCreateMesh \/ GenReturn

GenSpec == GenInit /\ [][GenNext]_vars

(***************************************************************************)
(* Reading a mesh: its triangles and the unit cells they cover.            *)
(***************************************************************************)
MeshTypes == {TILE, FILLER, TRIM, CROSS, SEAM}

NumTriangles(m) == Len(m.indices) \div 3

\* the k-th triangle of the triangle list, as vertex indices
Triangle(m, k) == << m.indices[3 * k - 2], m.indices[3 * k - 1], m.indices[3 * k] >>

\* twice the signed area of the triangle in the XZ plane
Area2(a, b, c) == (b[1] - a[1]) * (c[3] - a[3]) - (b[3] - a[3]) * (c[1] - a[1])

Min3(a, b, c) == Min2(a, Min2(b, c))
Max3(a, b, c) == Max2(a, Max2(b, c))

\* lower corner <<x, z>> of the bounding square of a triangle, and its extent
TriLow(a, b, c) == << Min3(a[1], b[1], c[1]), Min3(a[3], b[3], c[3]) >>
TriHigh(a, b, c) == << Max3(a[1], b[1], c[1]), Max3(a[3], b[3], c[3]) >>

TriangleOk(m, k) ==
    LET t == Triangle(m, k)
    IN  /\ \A j \in 1..3 : t[j] >= 0 /\ t[j] < Len(m.vertices)
        /\ t[1] # t[2] /\ t[2] # t[3] /\ t[1] # t[3]
        /\ LET a == m.vertices[t[1] + 1]
               b == m.vertices[t[2] + 1]
               c == m.vertices[t[3] + 1]
           IN  /\ Area2(a, b, c) # 0
               /\ TriHigh(a, b, c) = << TriLow(a, b, c)[1] + FX, TriLow(a, b, c)[2] + FX >>

\* the unit cell (lower corner, in world units) a triangle lies in
TriangleCell(m, k) ==
    LET t == Triangle(m, k)
        lo == TriLow(m.vertices[t[1] + 1], m.vertices[t[2] + 1], m.vertices[t[3] + 1])
    IN  << lo[1] \div FX, lo[2] \div FX >>

TrianglesIn(m, cell, ks) == {k \in ks : TriangleCell(m, k) = cell}

\* the vertex and index counts that follow from the construction rules
ClosedCounts(r, T) ==
    LET C == 4 * T + 2
    IN  CASE r = TILE   -> << (T + 1) * (T + 1), 6 * T * T >>
          [] r = FILLER -> << 8 * (T + 1), 24 * T >>
          [] r = TRIM   -> << 2 * (2 * C + 1), 6 * (2 * C - 1) >>
          [] r = CROSS  -> << 8 * (T + 1), 24 * T + 6 >>
          [] r = SEAM   -> << 4 * C, 6 * C >>

\* the mesh generate returned for a role
Returned(r) == g_rs[g_ret[Ord(r) + 1]]

(***************************************************************************)
(* Claims about generate, checked under GenSpec.                           *)
(***************************************************************************)

\* C5: generate returns exactly 5 meshes in the order TILE, FILLER, TRIM,
\* CROSS, SEAM whose vertex and index counts equal the closed forms, no
\* write leaves its buffer, and the index cursor of every block ends at the
\* length of the index buffer.
C5_GenerateCounts ==
    /\ g_phase # "panic"
    /\ g_phase = "create" => g_n = Len(g_indices)
    /\ g_phase = "done" =>
          /\ Len(g_ret) = 5
          /\ Len(g_rs) = 5
          /\ \A r \in MeshTypes :
                << Len(Returned(r).vertices), Len(Returned(r).indices) >>
                    = ClosedCounts(r, g_size)

C5_Witness ==
    /\ g_phase = "done"
    /\ g_size >= 2
    /\ g_levels >= 2
    /\ Len(Returned(CROSS).indices) = 24 * g_size + 6

\* C6: every value of every index buffer created lies in [0, vertexCount)
\* of its mesh; the last seam index is 0.
C6_IndicesInRange ==
    /\ \A k \in 1..Len(g_rs) : \A j \in 1..Len(g_rs[k].indices) :
          g_rs[k].indices[j] >= 0 /\ g_rs[k].indices[j] < Len(g_rs[k].vertices)
    /\ g_phase = "done" => Returned(SEAM).indices[Len(Returned(SEAM).indices)] = 0

C6_Witness ==
    /\ g_phase = "done"
    /\ LET m == Returned(SEAM)
       IN  /\ m.indices[Len(m.indices)] = 0
           /\ m.indices[Len(m.indices) - 2] = Len(m.vertices) - 1

\* C7: the box handed to create_mesh contains every vertex of the mesh.
C7_AabbContainsVertices ==
    \A k \in 1..Len(g_rs) : \A j \in 1..Len(g_rs[k].vertices) :
        AabbHas(g_rs[k].aabb, g_rs[k].vertices[j])

\* C8: in the CROSS mesh the Z strip covers the cells (0, i - T) for every
\* i in [0, 2T] except i = T, the X strip the cells (i - T, 0) for every i in
\* [0, 2T], every covered cell holds exactly the two triangles of one quad,
\* and no triangle is degenerate.
C8_CrossNoOverlap ==
    g_phase = "done" =>
        LET m == Returned(CROSS)
            T == g_size
            all == 1..NumTriangles(m)
            s == 4 * (T + 1)
            zs == {k \in all : \E j \in 1..3 : Triangle(m, k)[j] >= s}
            xs == all \ zs
        IN  /\ \A k \in all : TriangleOk(m, k)
            /\ {TriangleCell(m, k) : k \in zs} = {<< 0, i - T >> : i \in (0..(2 * T)) \ {T}}
            /\ {TriangleCell(m, k) : k \in xs} = {<< i - T, 0 >> : i \in 0..(2 * T)}
            /\ \A k \in all : Cardinality(TrianglesIn(m, TriangleCell(m, k), all)) = 2

C8_Witness ==
    /\ g_phase = "done"
    /\ g_size >= 2
    /\ LET m == Returned(CROSS)
       IN  /\ Cardinality(TrianglesIn(m, << 0, 0 >>, 1..NumTriangles(m))) = 2
           /\ Cardinality(TrianglesIn(m, << 0, 1 >>, 1..NumTriangles(m))) = 2

(***************************************************************************)
(* Terrain3D: transforms.                                                  *)
(***************************************************************************)
\* Basis::default()
IdentityBasis == << <<1, 0, 0>>, <<0, 1, 0>>, <<0, 0, 1>> >>

\* Transform3D::new(basis, origin)
Transform3D(b, o) == [basis |-> b, origin |-> o]

\* Transform3D::default()
DefaultTransform == Transform3D(IdentityBasis, Zero3)

\* cos and sin of a multiple of 90 degrees (deg_to_rad, then cos / sin; the
\* f32 results are within 1e-7 of these)
CosDeg(a) == CASE a % 360 = 0 -> 1 [] a % 360 = 90 -> 0 [] a % 360 = 180 -> -1 [] a % 360 = 270 -> 0
SinDeg(a) == CASE a % 360 = 0 -> 0 [] a % 360 = 90 -> 1 [] a % 360 = 180 -> 0 [] a % 360 = 270 -> -1

\* Transform3D::rotated(Vector3(0, 1, 0), angle): Basis::from_axis_angle(Y,
\* angle) * basis, and the origin rotated likewise
RotatedY(t, deg) ==
    LET c == CosDeg(deg)
        sn == SinDeg(deg)
        b == t.basis
        o == t.origin
    IN  Transform3D(
            << << c * b[1][1] + sn * b[3][1], c * b[1][2] + sn * b[3][2], c * b[1][3] + sn * b[3][3] >>,
               b[2],
               << c * b[3][1] - sn * b[1][1], c * b[3][2] - sn * b[1][2], c * b[3][3] - sn * b[1][3] >> >>,
            << c * o[1] + sn * o[3], o[2], c * o[3] - sn * o[1] >>)

\* Transform3D::scaled(scale): Basis::from_scale(scale) * basis, origin * scale
Scaled(t, sc) ==
    LET b == t.basis
        o == t.origin
    IN  Transform3D(
            << << sc[1] * b[1][1], sc[1] * b[1][2], sc[1] * b[1][3] >>,
               << sc[2] * b[2][1], sc[2] * b[2][2], sc[2] * b[2][3] >>,
               << sc[3] * b[3][1], sc[3] * b[3][2], sc[3] * b[3][3] >> >>,
            << o[1] * sc[1], o[2] * sc[2], o[3] * sc[3] >>)

\* `transform.origin = o`
WithOrigin(t, o) == Transform3D(t.basis, o)

\* v << l
Shl(v, l) == v * (2 ^ l)

\* rounding towards zero instead of down: C3 tells it from FloorTo
FloorTo_truncating(c, scale) ==
    IF c >= 0 THEN (c \div (scale * FX)) * (scale * FX)
    ELSE 0 - (((0 - c) \div (scale * FX)) * (scale * FX))

\* (v / scale).floor() * scale on one coordinate, scale a whole number of
\* world units
FloorTo(c, scale) == (c \div (scale * FX)) * (scale * FX)

\* a snap that keeps the camera's height: C10 tells it from SnapInput
SnapInput_keepsHeight(p) == p

\* `p_cam_pos.y = 0.0` at the head of snap
SnapInput(p) == << p[1], 0, p[3] >>

\* a snap that places the four inner tiles of every level: C28 tells it from
\* SnapSkips
SnapSkips_none(l, x, y) == FALSE

\* the `continue` of snap's tile loop
SnapSkips(l, x, y) == l # 0 /\ (x = 1 \/ x = 2) /\ (y = 1 \/ y = 2)

\* a build that creates the four inner tiles of every level: C1 tells it from
\* BuildSkips
BuildSkips_none(l, x, y) == FALSE

\* the `continue` of build's tile loop
BuildSkips(l, x, y) == l # 0 /\ (x = 1 \/ x = 2) /\ (y = 1 \/ y = 2)

\* every level snapped to the grid of level 0: C4 tells it from SnappedPos
SnappedPos_unscaled(p, scale) == << FloorTo(p[1], 1), FloorTo(p[2], 1), FloorTo(p[3], 1) >>

\* (p / scale).floor() * scale on a vector
SnappedPos(p, scale) == << FloorTo(p[1], scale), FloorTo(p[2], scale), FloorTo(p[3], scale) >>

\* the table with its two quarter turns exchanged: C9 tells it from rotations
rotations_exchanged == << 0, 90, 270, 180 >>

\* `let rotations = [0f64, 270., 90., 180.]`
rotations == << 0, 270, 90, 180 >>

\* a selector that counts an offset of exactly one scale as the near half:
\* C30 tells it from TrimSelector
TrimSelector_strict(d, scale) ==
    LET r1 == IF d[1] > scale * FX THEN 0 ELSE 2
        r2 == IF d[3] > scale * FX THEN 0 ELSE 1
    IN  r1 + r2

\* the selector r of the trim block
TrimSelector(d, scale) ==
    LET r1 == IF d[1] >= scale * FX THEN 0 ELSE 2
        r2 == IF d[3] >= scale * FX THEN 0 ELSE 1
    IN  r1 + r2

\* tiles laid side by side without the gap for the centre strips: C25 tells
\* it from SnapTileTransform
SnapTileTransform_unfilled(base, tsize, scale, x, y) ==
    LET tile_tl == << base[1] + x * tsize * FX, base[2], base[3] + y * tsize * FX >>
    IN  WithOrigin(Scaled(DefaultTransform, << scale, 1, scale >>), tile_tl)

\* the transform of one tile iteration, from the locals of its level
SnapTileTransform(base, tsize, scale, x, y) ==
    LET fill == << (IF x >= 2 THEN FX ELSE 0) * scale, 0, (IF y >= 2 THEN FX ELSE 0) * scale >>
        tile_tl == << base[1] + x * tsize * FX + fill[1],
                      base[2] + fill[2],
                      base[3] + y * tsize * FX + fill[3] >>
    IN  WithOrigin(Scaled(DefaultTransform, << scale, 1, scale >>), tile_tl)

\* a filler moved but never scaled: C17 tells it from SnapFillerTransform
SnapFillerTransform_unscaled(snapped_pos, scale) == WithOrigin(DefaultTransform, snapped_pos)

\* the filler transform of a level
SnapFillerTransform(snapped_pos, scale) ==
    WithOrigin(Scaled(DefaultTransform, << scale, 1, scale >>), snapped_pos)

\* a trim placed at the corner of its cell instead of its centre: C18 tells
\* it from SnapTrimTransform
SnapTrimTransform_corner(p, snapped_pos, next_snapped_pos, scale) ==
    LET d == Sub3(p, next_snapped_pos)
        r == TrimSelector(d, scale)
        angle == rotations[r + 1]
    IN  WithOrigin(Scaled(RotatedY(DefaultTransform, 0 - angle), << scale, 1, scale >>),
                   snapped_pos)

\* the trim transform of a level
SnapTrimTransform(p, snapped_pos, next_snapped_pos, scale) ==
    LET tile_center == << (scale * FX) \div 2 + snapped_pos[1], snapped_pos[2],
                          (scale * FX) \div 2 + snapped_pos[3] >>
        d == Sub3(p, next_snapped_pos)
        r == TrimSelector(d, scale)
        angle == rotations[r + 1]
    IN  WithOrigin(Scaled(RotatedY(DefaultTransform, 0 - angle), << scale, 1, scale >>),
                   tile_center)

\* a seam placed by the tile size of its own level: C19 tells it from
\* SnapSeamTransform
SnapSeamTransform_ownLevel(next_snapped_pos, size, l, scale) ==
    LET tsize == Shl(size, l)
        next_base == Sub3(next_snapped_pos, V3(tsize, 0, tsize))
    IN  WithOrigin(Scaled(DefaultTransform, << scale, 1, scale >>), next_base)

\* the seam transform of a level
SnapSeamTransform(next_snapped_pos, size, l, scale) ==
    LET tsize_1 == Shl(size, l + 1)
        next_base == Sub3(next_snapped_pos, V3(tsize_1, 0, tsize_1))
    IN  WithOrigin(Scaled(DefaultTransform, << scale, 1, scale >>), next_base)

\* the instance_set_transform calls of level l in program order, `edge` and
\* `tile` being the counters when the level starts: each names the instance
\* list, the index used, and the transform
SnapLevel(p, size, lods, l, edge, tile) ==
    LET scale == Shl(1, l)
        snapped_pos == SnappedPos(p, scale)
        tsize == Shl(size, l)
        tsize_1 == Shl(size, l + 1)
        base == Sub3(snapped_pos, V3(tsize_1, 0, tsize_1))
        placed == SelectSeq(<< 0, 1, 2, 3, 4, 5, 6, 7, 8, 9, 10, 11, 12, 13, 14, 15 >>,
                            LAMBDA c : ~SnapSkips(l, c \div 4, c % 4))
        tiles_ == [k \in 1..Len(placed) |->
                     [list |-> "tiles", idx |-> tile + k - 1,
                      xf |-> SnapTileTransform(base, tsize, scale, placed[k] \div 4, placed[k] % 4)]]
        filler == [list |-> "fillers", idx |-> l, xf |-> SnapFillerTransform(snapped_pos, scale)]
        next_snapped_pos == SnappedPos(p, scale * 2)
    IN  IF l # lods - 1
        THEN tiles_ \o << filler,
                          [list |-> "trims", idx |-> edge,
                           xf |-> SnapTrimTransform(p, snapped_pos, next_snapped_pos, scale)],
                          [list |-> "seams", idx |-> edge,
                           xf |-> SnapSeamTransform(next_snapped_pos, size, l, scale)] >>
        ELSE Append(tiles_, filler)

\* the number of tiles level l places
SnapLevelTileCount(l) == Cardinality({c \in 0..15 : ~SnapSkips(l, c \div 4, c % 4)})

RECURSIVE SnapLevels(_, _, _, _, _, _)
\* the level loop from level l on: the calls of each level
SnapLevels(p, size, lods, l, edge, tile) ==
    IF l >= lods THEN <<>>
    ELSE << SnapLevel(p, size, lods, l, edge, tile) >>
         \o SnapLevels(p, size, lods, l + 1,
                       IF l # lods - 1 THEN edge + 1 ELSE edge, tile + SnapLevelTileCount(l))

\* the configurations of a terrain: init() is the only writer of mesh_size and
\* mesh_lods
Configs == {<< DefaultMeshSize, DefaultMeshLods >>}

\* the camera coordinates the model feeds, in tenths of a world unit: whole
\* world units from -1 on, steps of a tenth around the threshold, and a tenth
\* short of the first whole unit
CamCoords == {k * FX : k \in (0 - 1)..MaxCam} \cup (1..MaxFine) \cup {FX - 1}

\* the camera positions the model feeds lie on the axes and the diagonal
CamXz == {q \in CamCoords \X CamCoords : q[1] = 0 \/ q[2] = 0 \/ q[1] = q[2]}

\* at ground level on the axes, raised on the diagonal
CamPositions ==
    {<< q[1], IF q[1] = q[2] /\ q[1] # 0 THEN CamHeight ELSE 0, q[2] >> : q \in CamXz}

\* the positions snap is evaluated on
SnapInputs == {<< q[1], y, q[2] >> : q \in CamXz, y \in {0, CamHeight}}

\* snap's level loop on the inputs drawn here, evaluated once per input
SnapLevelCalls ==
    [p \in SnapInputs, cfg \in Configs |-> SnapLevels(p, cfg[1], cfg[2], 0, 0, 0)]

\* the cross placed at the camera itself: C16 tells it from SnapCrossTransform
SnapCrossTransform_unfloored(p) == Transform3D(IdentityBasis, p)

\* `Transform3D::new(Basis::default(), p_cam_pos.floor())`
SnapCrossTransform(p) == Transform3D(IdentityBasis, SnappedPos(p, 1))

\* every instance_set_transform call of snap(p_cam_pos), in program order:
\* the cross, then level by level
SnapCalls(p_cam_pos, d, size, lods) ==
    LET p == SnapInput(p_cam_pos)
        cross == IF d.cross # 0
                 THEN << [list |-> "cross", idx |-> 0,
                          xf |-> SnapCrossTransform(p)] >>
                 ELSE <<>>
    IN  << cross >> \o SnapLevelCalls[p, << size, lods >>]

\* the instance list a call indexes
ListOf(d, name) == IF name = "cross" THEN << d.cross >> ELSE d[name]

\* the calls of one group applied in order; an index past the end of its Vec
\* panics and leaves the calls made before it applied
ApplySetTransforms(inst, d, calls) ==
    LET faulty == {k \in 1..Len(calls) : calls[k].idx >= Len(ListOf(d, calls[k].list))}
        n == IF faulty = {} THEN Len(calls)
             ELSE (CHOOSE k \in faulty : \A j \in faulty : k <= j) - 1
        applied[k \in 0..n] ==
            IF k = 0 THEN inst
            ELSE [applied[k - 1] EXCEPT
                     ![ListOf(d, calls[k].list)[calls[k].idx + 1]].transform = calls[k].xf]
    IN  [ok |-> faulty = {}, inst |-> applied[n]]

\* snap: the rendering server's instances afterwards, and whether it returned
Snap(inst, d, p_cam_pos, size, lods) ==
    LET groups == SnapCalls(p_cam_pos, d, size, lods)
        after[j \in 0..Len(groups)] ==
            IF j = 0 THEN [ok |-> TRUE, inst |-> inst]
            ELSE LET before == after[j - 1]
                 IN  IF before.ok THEN ApplySetTransforms(before.inst, d, groups[j])
                     ELSE before
    IN  after[Len(groups)]

(***************************************************************************)
(* Terrain3D: build, initialize, ready, process.                           *)
(***************************************************************************)
\* GeoClipMap::generate as build sees it: the meshes it creates on the
\* rendering server, each named by the call and the block that made it (its
\* surface is the block's VertexPhase / IndexPhase / BlockAabb of that
\* size), and the returned Vec as positions among them
Generate(p_size, p_levels) ==
    [created |-> [k \in 1..Len(BlockOrder) |->
                     [size |-> p_size, block |-> BlockOrder[k], material |-> FALSE]],
     ret |-> ReturnOrder]

\* the instance_create2 calls of build in program order, by MeshType
BuildCreates(lods) ==
    << CROSS >>
    \o Concat([ll \in 1..lods |->
          Concat([xx \in 1..4 |-> Concat([yy \in 1..4 |->
              IF BuildSkips(ll - 1, xx - 1, yy - 1) THEN <<>> ELSE << TILE >>])])
          \o << FILLER >>
          \o (IF ll - 1 # lods - 1 THEN << TRIM, SEAM >> ELSE <<>>)])

\* the positions of a sequence that hold v, in order
PositionsOf(sq, v) ==
    LET idx == [k \in 1..Len(sq) |-> k]
    IN  SelectSeq(idx, LAMBDA k : sq[k] = v)

\* a build that ends with the last snapped position at the origin: C26
\* tells it from BuildLastPosition
BuildLastPosition_origin == << 0, 0 >>

\* `self.camera_last_position = Vector2::new(real::MAX, real::MAX)` at the end
\* of build
BuildLastPosition == << F32_MAX, F32_MAX >>

\* build(): the fields and the rendering server afterwards, and Ok or Err.
\* inside_tree: base().is_inside_tree(); world_3d: whether
\* base().get_world_3d() yields a world; has_material, has_storage: whether
\* the fields are Some when build runs.
Build(inside_tree, world_3d, has_material, has_storage) ==
    LET unchanged == [ok |-> TRUE, built |-> FALSE, meshes |-> meshes, data |-> data,
                      rs_meshes |-> rs_meshes, rs_instances |-> rs_instances,
                      camera_last_position |-> camera_last_position]
        gen == Generate(mesh_size, mesh_lods)
        new_meshes == [k \in 1..Len(gen.ret) |-> Len(rs_meshes) + gen.ret[k]]
        generated == [unchanged EXCEPT !.meshes = new_meshes,
                                       !.rs_meshes = rs_meshes \o gen.created]
        with_material == [generated EXCEPT !.rs_meshes =
                             [k \in 1..Len(generated.rs_meshes) |->
                                 IF \E j \in 1..Len(new_meshes) : new_meshes[j] = k
                                 THEN [generated.rs_meshes[k] EXCEPT !.material = TRUE]
                                 ELSE generated.rs_meshes[k]]]
        creates == BuildCreates(mesh_lods)
        first == Len(rs_instances)
        created == [k \in 1..Len(creates) |->
                       [base |-> new_meshes[Ord(creates[k]) + 1], scenario |-> "world",
                        transform |-> DefaultTransform]]
        rids(t) == [j \in 1..Len(PositionsOf(creates, t)) |-> first + PositionsOf(creates, t)[j]]
    IN  IF ~inside_tree /\ ~has_storage THEN unchanged
        ELSE IF Len(new_meshes) = 0 THEN [generated EXCEPT !.ok = FALSE]
        ELSE IF ~has_material THEN [generated EXCEPT !.ok = FALSE]
        ELSE IF ~world_3d THEN [with_material EXCEPT !.ok = FALSE]
        ELSE [ok |-> TRUE, built |-> TRUE,
              meshes |-> new_meshes,
              data |-> [cross |-> rids(CROSS)[1],
                        tiles |-> data.tiles \o rids(TILE),
                        fillers |-> data.fillers \o rids(FILLER),
                        trims |-> data.trims \o rids(TRIM),
                        seams |-> data.seams \o rids(SEAM)],
              rs_meshes |-> with_material.rs_meshes,
              rs_instances |-> rs_instances \o created,
              camera_last_position |-> BuildLastPosition]

Init ==
    /\ \E cfg \in Configs : mesh_size = cfg[1] /\ mesh_lods = cfg[2]
    /\ TerrainConstructed
    /\ g_size = 0
    /\ g_levels = 0
    /\ g_block = 1
    /\ g_phase = "idle"
    /\ g_vertices = <<>>
    /\ g_indices = <<>>
    /\ g_n = 0
    /\ g_aabb = [position |-> Zero3, size |-> Zero3]
    /\ g_rs = <<>>
    /\ g_ret = <<>>

\* an initialize that builds whenever the node is inside the tree: C15 tells
\* it from InitializeBuilds
InitializeBuilds_always(inside_tree) == inside_tree

\* `if !self.initialized && self.base().is_inside_tree()` of initialize
InitializeBuilds(inside_tree) == ~initialized /\ inside_tree

\* ready(), with the initialize() and build() it calls.  inside_tree and
\* world_3d are what the engine answers to base().is_inside_tree() and
\* base().get_world_3d().
Ready ==
    /\ \E inside_tree \in BOOLEAN, world_3d \in BOOLEAN :
        LET runs_build == InitializeBuilds(inside_tree)
            b == Build(inside_tree, world_3d, TRUE, TRUE)
        IN  /\ runs_build /\ ~b.ok => failed_builds < MaxFailedBuilds
            /\ material' = TRUE
            /\ storage' = TRUE
            /\ IF runs_build
               THEN /\ meshes' = b.meshes
                    /\ data' = b.data
                    /\ rs_meshes' = b.rs_meshes
                    /\ rs_instances' = b.rs_instances
                    /\ camera_last_position' = b.camera_last_position
                    /\ initialized' = b.ok
                    /\ processing' = (b.ok \/ processing)
                    /\ failed_builds' = IF b.ok THEN failed_builds ELSE failed_builds + 1
               ELSE /\ processing' = TRUE
                    /\ UNCHANGED <<meshes, data, rs_meshes, rs_instances, camera_last_position,
                                   initialized, failed_builds>>
    /\ last_op' = "ready"
    /\ UNCHANGED <<mesh_size, mesh_lods, camera, cam_pos>>
    /\ UNCHANGED gvars

\* what grab_camera finds: in the editor a camera under the main screen, no
\* camera, no main screen, or a main screen without an edited scene root
\* (the expect() panics); in a game the viewport's camera or none
GrabOutcomes == {"editor_found", "editor_none", "editor_panic", "game_found", "game_none"}

\* the threshold of process, 0.2
SnapThreshold == 2

\* the larger of the two axis distances in place of the Euclidean one: C2
\* tells it from DistanceExceeds
DistanceExceeds_perAxis(a, b, threshold) ==
    \/ (a[1] - b[1]) * (a[1] - b[1]) > threshold * threshold
    \/ (a[2] - b[2]) * (a[2] - b[2]) > threshold * threshold

\* Vector2::distance_to(a, b) > threshold, on the squares
DistanceExceeds(a, b, threshold) ==
    (a[1] - b[1]) * (a[1] - b[1]) + (a[2] - b[2]) * (a[2] - b[2]) > threshold * threshold

\* a process that remembers the snapped position of level 0 in place of the
\* camera's: C29 tells it from ProcessLastPosition
ProcessLastPosition_floored(cam_pos_2d) ==
    << FloorTo(cam_pos_2d[1], 1), FloorTo(cam_pos_2d[2], 1) >>

\* self.camera_last_position = cam_pos_2d
ProcessLastPosition(cam_pos_2d) == cam_pos_2d

\* Vector2::new(cam_pos.x, cam_pos.z)
Xz(p) == << p[1], p[3] >>

\* self.camera after grab_camera
GrabbedCamera(grab) ==
    CASE grab = "editor_found" -> "valid"
      [] grab = "editor_none"  -> camera
      [] grab = "editor_panic" -> camera
      [] grab = "game_found"   -> "valid"
      [] grab = "game_none"    -> "none"

\* a frame callback that goes on although the terrain is not built: C11 tells
\* it from ProcessReturns
ProcessReturns_never == FALSE

\* `if !self.initialized { return; }` at the head of process
ProcessReturns == ~initialized

\* a camera search that never turns processing off: C27 tells it from
\* GrabDisables
GrabDisables_never(camera1) == FALSE

\* `if self.camera.is_none() { self.base_mut().set_process(false); }` at the
\* end of grab_camera
GrabDisables(camera1) == camera1 = "none"

\* process(): one frame.  grab is the outcome of grab_camera, cam_in_tree
\* what camera.is_inside_tree() answers and p the camera's global position,
\* each drawn only when the frame reads it.
Process ==
    /\ processing
    /\ LET grabs == ~ProcessReturns /\ camera # "valid"
       IN  \E grab \in IF grabs THEN GrabOutcomes ELSE {"unused"} :
           LET panics == grabs /\ grab = "editor_panic"
               camera1 == IF grabs THEN GrabbedCamera(grab) ELSE camera
               asks == ~ProcessReturns /\ ~panics /\ camera1 = "valid"
           IN  \E cam_in_tree \in IF asks THEN BOOLEAN ELSE {FALSE} :
               LET reads == asks /\ cam_in_tree
               IN  \E p \in IF reads THEN CamPositions ELSE {cam_pos} :
                   LET snaps == reads /\ DistanceExceeds(camera_last_position, Xz(p), SnapThreshold)
                       sn == Snap(rs_instances, data, p, mesh_size, mesh_lods)
                   IN  /\ camera' = camera1
                       /\ processing' = IF grabs /\ ~panics /\ GrabDisables(camera1) THEN FALSE
                                        ELSE processing
                       /\ cam_pos' = p
                       /\ rs_instances' = IF snaps THEN sn.inst ELSE rs_instances
                       /\ camera_last_position' = IF snaps /\ sn.ok THEN ProcessLastPosition(Xz(p))
                                                  ELSE camera_last_position
                       /\ last_op' = IF panics THEN "panic"
                                     ELSE IF reads THEN "update" ELSE "frame"
    /\ UNCHANGED <<mesh_size, mesh_lods, initialized, material, storage, meshes, data,
                   rs_meshes, failed_builds>>
    /\ UNCHANGED gvars

\* the stored camera is freed by the engine
CameraFreed ==
    /\ camera = "valid"
    /\ camera' = "freed"
    /\ last_op' = "env"
    /\ UNCHANGED <<mesh_size, mesh_lods, initialized, material, storage,
                   camera_last_position, meshes, data, processing, cam_pos,
                   rs_meshes, rs_instances, failed_builds>>
    /\ UNCHANGED gvars

\* the host turns per-frame processing back on: set_process(true)
EnableProcess ==
    /\ ~processing
    /\ processing' = TRUE
    /\ last_op' = "env"
    /\ UNCHANGED <<mesh_size, mesh_lods, initialized, material, storage, camera,
                   camera_last_position, meshes, data, cam_pos,
                   rs_meshes, rs_instances, failed_builds>>
    /\ UNCHANGED gvars

Next ==
    \/ Ready
    \/ Process
    \/ CameraFreed
    \/ EnableProcess

Spec == Init /\ [][Next]_vars

(***************************************************************************)
(* Reading a terrain.                                                      *)
(***************************************************************************)
\* a snap has been performed since the build
Snapped == initialized /\ camera_last_position # << F32_MAX, F32_MAX >>

\* floor(c / s) * s on a coordinate in tenths, s a whole number of units
FloorOnGrid(c, s) == (c \div (s * FX)) * (s * FX)

\* the cells of a level that carry a tile: all 16 on level 0, the outer 12 above
Placed(l, x, y) == l = 0 \/ ~(x \in {1, 2} /\ y \in {1, 2})

\* the position in the tile list of the tile of cell (x, y) of level l: 16
\* tiles on level 0 and 12 on each level above it, x-major inside a level
TileSlot(l, x, y) ==
    IF l = 0 THEN 4 * x + y
    ELSE 16 + 12 * (l - 1) + 4 * x + y - Cardinality({c \in {5, 6, 9, 10} : c < 4 * x + y})

\* the transform the rendering server holds for an instance
TransformOf(rid) == rs_instances[rid].transform

\* the instances of the rendering server that show mesh type t
InstancesOf(t) ==
    {r \in 1..Len(rs_instances) : rs_instances[r].base = meshes[Ord(t) + 1]}

\* the elements of a sequence
Range(sq) == {sq[k] : k \in 1..Len(sq)}

(***************************************************************************)
(* Properties of Terrain3D.                                                *)
(***************************************************************************)
\* C1: in every state with initialized = true, whatever calls of ready and
\* process and whatever failed builds came before, the terrain of L levels
\* holds exactly 1 CROSS instance, 16*L - 4*(L-1) TILE instances (16 for level
\* 0 and 12 for each level above, the cells left out being those with x and y
\* both in {1,2}), L FILLER, L-1 TRIM and L-1 SEAM instances.
C1_InstanceCounts ==
    initialized =>
        LET L == mesh_lods
        IN  /\ L >= 1
            /\ data.cross # 0
            /\ InstancesOf(CROSS) = {data.cross}
            /\ Len(data.tiles) = 16 * L - 4 * (L - 1)
            /\ Cardinality(Range(data.tiles)) = Len(data.tiles)
            /\ InstancesOf(TILE) = Range(data.tiles)
            /\ \A l \in 0..(L - 1) :
                   /\ Cardinality({c \in (0..3) \X (0..3) : ~BuildSkips(l, c[1], c[2])})
                          = IF l = 0 THEN 16 ELSE 12
                   /\ \A x \in 0..3, y \in 0..3 :
                          BuildSkips(l, x, y) <=> (l > 0 /\ x \in {1, 2} /\ y \in {1, 2})
            /\ Len(data.fillers) = L
            /\ InstancesOf(FILLER) = Range(data.fillers)
            /\ Cardinality(Range(data.fillers)) = L
            /\ Len(data.trims) = L - 1
            /\ InstancesOf(TRIM) = Range(data.trims)
            /\ Cardinality(Range(data.trims)) = L - 1
            /\ Len(data.seams) = L - 1
            /\ InstancesOf(SEAM) = Range(data.seams)
            /\ Cardinality(Range(data.seams)) = L - 1

\* a built terrain whose earlier build attempt failed
C1_Witness ==
    initialized /\ failed_builds > 0 /\ Len(data.tiles) > 0 /\ last_op = "update"

\* C2: a camera update whose position lies within 0.2 (2D distance on X, Z)
\* of the last snapped position changes no transform and leaves the last
\* snapped position alone; one whose position lies farther than 0.2 performs
\* snap and sets the last snapped position to the camera's X, Z.
C2_SnapThreshold ==
    [][last_op' = "update" =>
          LET c == << cam_pos'[1], cam_pos'[3] >>
              dx == camera_last_position[1] - c[1]
              dz == camera_last_position[2] - c[2]
          IN  IF dx * dx + dz * dz > 2 * 2
              THEN /\ camera_last_position' = c
                   /\ rs_instances' = Snap(rs_instances, data, cam_pos', mesh_size, mesh_lods).inst
              ELSE /\ camera_last_position' = camera_last_position
                   /\ rs_instances' = rs_instances]_vars

\* the camera moved from (0,0,0) to (0.1,0,0) after a snap at (0,0,0)
C2_Witness ==
    /\ last_op = "update"
    /\ camera_last_position = << 0, 0 >>
    /\ cam_pos = << 1, 0, 0 >>

\* C3: after a snap at camera position p, the tile of every placed cell (x, y)
\* of every level l has scale (2^l, 1, 2^l) and origin
\* floor(p / 2^l) * 2^l - 2 * tileSize + (x, y) * tileSize + fill, with
\* tileSize = mesh_size * 2^l and fill = 2^l on X iff x >= 2, on Z iff y >= 2.
C3_TileTransforms ==
    Snapped =>
        \A l \in 0..(mesh_lods - 1), x \in 0..3, y \in 0..3 :
            Placed(l, x, y) =>
                LET s == 2 ^ l
                    ts == mesh_size * s
                    t == TransformOf(data.tiles[TileSlot(l, x, y) + 1])
                IN  /\ t.basis = << << s, 0, 0 >>, << 0, 1, 0 >>, << 0, 0, s >> >>
                    /\ t.origin =
                         << FloorOnGrid(camera_last_position[1], s) - 2 * ts * FX + x * ts * FX
                                + (IF x >= 2 THEN s * FX ELSE 0),
                            0,
                            FloorOnGrid(camera_last_position[2], s) - 2 * ts * FX + y * ts * FX
                                + (IF y >= 2 THEN s * FX ELSE 0) >>

\* a snap at a negative coordinate, where floor and truncation differ on
\* every level above 0
C3_Witness ==
    /\ Snapped
    /\ last_op = "update"
    /\ camera_last_position = << 0 - FX, 0 >>
    /\ mesh_lods > 1

\* C4: between two snapped camera positions c1 and c2, every tile origin of
\* level l shifts by exactly floor(c2 / 2^l) * 2^l - floor(c1 / 2^l) * 2^l on
\* X and on Z.
C4_TileShift ==
    [][(Snapped /\ Snapped') =>
          \A l \in 0..(mesh_lods - 1), x \in 0..3, y \in 0..3 :
              Placed(l, x, y) =>
                  LET s == 2 ^ l
                      rid == data.tiles[TileSlot(l, x, y) + 1]
                      before == rs_instances[rid].transform.origin
                      after == rs_instances'[rid].transform.origin
                  IN  /\ after[1] - before[1] =
                            FloorOnGrid(camera_last_position'[1], s)
                                - FloorOnGrid(camera_last_position[1], s)
                      /\ after[2] = before[2]
                      /\ after[3] - before[3] =
                            FloorOnGrid(camera_last_position'[2], s)
                                - FloorOnGrid(camera_last_position[2], s)]_vars

\* with mesh_size 48 the camera sits at (1,0,0): against a snap at (0,0,0)
\* the level-0 tiles have moved by 1 along X and the level-1 tiles by 0
C4_Witness ==
    /\ Snapped
    /\ last_op = "update"
    /\ mesh_size = 48
    /\ camera_last_position = << FX, 0 >>
    /\ TransformOf(data.tiles[TileSlot(0, 0, 0) + 1]).origin[1] = FX - 2 * mesh_size * FX
    /\ TransformOf(data.tiles[TileSlot(1, 0, 0) + 1]).origin[1] = 0 - 4 * mesh_size * FX

\* C9: after a snap at camera position p, for every level l below the last,
\* with scale = 2^l, n = floor(p / (2 * scale)) * (2 * scale) and d = p - n,
\* the trim of level l is turned by the r-th entry of (0, 270, 90, 180)
\* degrees (as rotateY(-angle)), r = (2 if d.x < scale else 0) | (1 if d.z <
\* scale else 0).
C9_TrimRotation ==
    Snapped =>
        \A l \in 0..(mesh_lods - 2) :
            LET s == 2 ^ l
                dx == camera_last_position[1] - FloorOnGrid(camera_last_position[1], 2 * s)
                dz == camera_last_position[2] - FloorOnGrid(camera_last_position[2], 2 * s)
                r == (IF dx < s * FX THEN 2 ELSE 0) + (IF dz < s * FX THEN 1 ELSE 0)
                yaw == << 0, 270, 90, 180 >>[r + 1]
            IN  TransformOf(data.trims[l + 1]).basis
                    = Scaled(RotatedY(DefaultTransform, 0 - yaw), << s, 1, s >>).basis

\* a snap at (1,0,0): on level 0 d = (1,0), so r = 1 and the trim is turned
\* by 270 degrees
C9_Witness ==
    /\ Snapped
    /\ camera_last_position = << FX, 0 >>
    /\ TransformOf(data.trims[1]).basis = << << 0, 0, 1 >>, << 0, 1, 0 >>, << 0 - 1, 0, 0 >> >>

\* C10: snap depends on the camera's X and Z only: after a snap at p, calling
\* snap again with the same X and Z, at any height, leaves every transform as
\* it is (skipping the call changes nothing), and the same call on instances
\* with any previous transforms (here the default ones) yields the same
\* transforms.
C10_SnapDeterministic ==
    Snapped =>
        \A y \in {0, CamHeight} :
            LET p == << camera_last_position[1], y, camera_last_position[2] >>
                fresh == [r \in 1..Len(rs_instances) |->
                             [rs_instances[r] EXCEPT !.transform = DefaultTransform]]
            IN  /\ Snap(rs_instances, data, p, mesh_size, mesh_lods).inst = rs_instances
                /\ Snap(fresh, data, p, mesh_size, mesh_lods).inst = rs_instances

\* a snap performed for a raised camera
C10_Witness ==
    /\ Snapped
    /\ last_op = "update"
    /\ cam_pos[2] = CamHeight
    /\ camera_last_position = << cam_pos[1], cam_pos[3] >>

\* C11: while the terrain is not built (initialized = false) a frame callback
\* reads no camera, calls no snap (so indexes none of the empty instance
\* lists) and changes nothing of the terrain or the rendering server.
C11_UnbuiltFrameNoOp ==
    [][(~initialized /\ last_op' \in {"frame", "update"}) =>
          /\ last_op' = "frame"
          /\ UNCHANGED <<mesh_size, mesh_lods, initialized, material, storage, camera,
                         camera_last_position, meshes, data, processing, cam_pos,
                         rs_meshes, rs_instances, failed_builds>>]_vars

\* a frame callback that ran on a terrain without instances
C11_Witness ==
    /\ ~initialized
    /\ processing
    /\ last_op = "frame"
    /\ data = NoInstances

\* C12: a generate call whose tile resolution or ring count is below 1 fails
\* before any work: it creates no mesh on the rendering server and returns
\* no mesh set.
C12_InvalidParameterFailsFast ==
    (g_size < 1 \/ g_levels < 1) =>
        /\ Len(g_rs) = 0
        /\ g_ret = <<>>
        /\ g_phase # "done"

\* C13: a build that returns an error leaves the stored mesh set and the
\* instance lists as they were before the call, and no mesh or instance it
\* created stays registered with the rendering server.
C13_FailedBuildRollsBack ==
    [][failed_builds' > failed_builds =>
          /\ meshes' = meshes
          /\ data' = data
          /\ rs_meshes' = rs_meshes
          /\ rs_instances' = rs_instances]_vars

\* the mesh an instance shows is the stored mesh of role t, and that mesh was
\* created from the block of role t
ShowsRole(rid, t) ==
    /\ rs_instances[rid].base = meshes[t + 1]
    /\ rs_meshes[meshes[t + 1]].block = t

\* every instance of every list shows the mesh of its role
RolesBound ==
    /\ ShowsRole(data.cross, CROSS)
    /\ \A k \in 1..Len(data.tiles) : ShowsRole(data.tiles[k], TILE)
    /\ \A k \in 1..Len(data.fillers) : ShowsRole(data.fillers[k], FILLER)
    /\ \A k \in 1..Len(data.trims) : ShowsRole(data.trims[k], TRIM)
    /\ \A k \in 1..Len(data.seams) : ShowsRole(data.seams[k], SEAM)

\* C14: on a built terrain a frame callback, with or without a snap, changes
\* nothing but instance transforms and the last snapped position: the mesh
\* set, the instance lists, the meshes and the number of instances of the
\* rendering server and the mesh and scenario of every instance stay as they
\* were, and every instance of a role shows the stored mesh of that role.
C14_SnapKeepsResources ==
    [][(initialized /\ last_op' \in {"frame", "update", "panic"}) =>
          /\ initialized'
          /\ meshes' = meshes
          /\ data' = data
          /\ rs_meshes' = rs_meshes
          /\ Len(rs_instances') = Len(rs_instances)
          /\ \A r \in 1..Len(rs_instances) :
                /\ rs_instances'[r].base = rs_instances[r].base
                /\ rs_instances'[r].scenario = rs_instances[r].scenario
          /\ RolesBound'
          /\ <<mesh_size, mesh_lods, material, storage>>' = <<mesh_size, mesh_lods, material, storage>>]_vars

\* a snap that moved the instances of a terrain built at the second attempt
C14_Witness ==
    /\ Snapped
    /\ last_op = "update"
    /\ camera_last_position = << 2 * FX, 0 >>
    /\ Len(rs_meshes) > 5
    /\ TransformOf(data.tiles[1]).origin[1] = 2 * FX - 2 * mesh_size * FX

\* C15: the terrain is either unbuilt (initialized false, no instance in any
\* list) or built; once initialized is true it stays true and no operation
\* runs build again: the mesh set and the instance lists stay as they are and
\* no mesh and no instance is created on the rendering server.
C15_BuiltOnce ==
    /\ [](~initialized => data = NoInstances /\ Len(rs_instances) = 0)
    /\ [][initialized =>
             /\ initialized'
             /\ meshes' = meshes
             /\ data' = data
             /\ rs_meshes' = rs_meshes
             /\ Len(rs_instances') = Len(rs_instances)]_vars

\* ready called again on a built terrain whose camera was grabbed
C15_Witness ==
    /\ initialized
    /\ last_op = "ready"
    /\ camera = "valid"
    /\ Len(data.tiles) > 0

\* C16: after every snap the cross has no rotation, unit scale and the origin
\* (floor(x), 0, floor(z)) of the camera position snapped to, whatever the
\* camera's height.
C16_CrossTransform ==
    Snapped =>
        TransformOf(data.cross) =
            [basis |-> << << 1, 0, 0 >>, << 0, 1, 0 >>, << 0, 0, 1 >> >>,
             origin |-> << FloorOnGrid(camera_last_position[1], 1), 0,
                           FloorOnGrid(camera_last_position[2], 1) >>]

\* a snap to a raised camera 0.3 off the grid on both axes
C16_Witness ==
    /\ Snapped
    /\ last_op = "update"
    /\ cam_pos = << 3, CamHeight, 3 >>
    /\ camera_last_position = << 3, 3 >>
    /\ TransformOf(data.cross).origin = << 0, 0, 0 >>

\* the basis of a scale by (s, 1, s) without rotation
ScaleOnly(s) == << << s, 0, 0 >>, << 0, 1, 0 >>, << 0, 0, s >> >>

\* the bases of a scale by (s, 1, s) of a yaw by a multiple of 90 degrees:
\* orthogonal axes of lengths s, 1, s
ScaleOfQuarterTurn(s) ==
    { << << s * q[1], 0, s * q[2] >>, << 0, 1, 0 >>, << 0 - s * q[2], 0, s * q[1] >> >> :
        q \in { << 1, 0 >>, << 0, 1 >>, << 0 - 1, 0 >>, << 0, 0 - 1 >> } }

\* a coordinate in tenths is a whole multiple of s world units
OnGrid(c, s) == c % (s * FX) = 0

\* the X and Z of every tile origin and of the filler origin of every level l
\* are multiples of 2^l
LevelsOnGrid ==
    \A l \in 0..(mesh_lods - 1) :
        /\ \A x \in 0..3, y \in 0..3 :
              Placed(l, x, y) =>
                  LET o == TransformOf(data.tiles[TileSlot(l, x, y) + 1]).origin
                  IN  OnGrid(o[1], 2 ^ l) /\ OnGrid(o[3], 2 ^ l)
        /\ LET o == TransformOf(data.fillers[l + 1]).origin
           IN  OnGrid(o[1], 2 ^ l) /\ OnGrid(o[3], 2 ^ l)

\* tiles, fillers and seams of level l are scaled by (2^l, 1, 2^l) and not
\* rotated; the cross is neither scaled nor rotated
UnrotatedScaled ==
    /\ TransformOf(data.cross).basis = ScaleOnly(1)
    /\ \A l \in 0..(mesh_lods - 1) :
          /\ \A x \in 0..3, y \in 0..3 :
                Placed(l, x, y) =>
                    TransformOf(data.tiles[TileSlot(l, x, y) + 1]).basis = ScaleOnly(2 ^ l)
          /\ TransformOf(data.fillers[l + 1]).basis = ScaleOnly(2 ^ l)
          /\ l < mesh_lods - 1 => TransformOf(data.seams[l + 1]).basis = ScaleOnly(2 ^ l)

\* C17 as stated: after any snap the tile and filler origins of level l lie on
\* the grid of 2^l and the transform of every instance is a translation and a
\* scale by (2^l, 1, 2^l), nothing else.
C17_OnlyTranslationAndScale ==
    Snapped =>
        /\ LevelsOnGrid
        /\ UnrotatedScaled
        /\ \A l \in 0..(mesh_lods - 2) :
              TransformOf(data.trims[l + 1]).basis = ScaleOnly(2 ^ l)

\* C17: after any snap the X and Z of every tile origin and of the filler
\* origin of level l are multiples of 2^l; the transform of every tile,
\* filler and seam of level l is a translation and a scale by (2^l, 1, 2^l),
\* that of the cross a translation, and that of the trim of level l a
\* translation and the scale by (2^l, 1, 2^l) of a yaw by a multiple of 90
\* degrees, which deforms nothing.
C17_GridAlignedNoDeformation ==
    Snapped =>
        /\ LevelsOnGrid
        /\ UnrotatedScaled
        /\ \A l \in 0..(mesh_lods - 2) :
              TransformOf(data.trims[l + 1]).basis \in ScaleOfQuarterTurn(2 ^ l)

\* a snap one unit left of the origin: level 1 lies two units left of it and
\* the trim of level 0 is turned
C17_Witness ==
    /\ Snapped
    /\ last_op = "update"
    /\ camera_last_position = << 0 - FX, 0 >>
    /\ TransformOf(data.fillers[2]).origin = << 0 - 2 * FX, 0, 0 >>
    /\ TransformOf(data.fillers[2]).basis = ScaleOnly(2)
    /\ TransformOf(data.trims[1]).basis # ScaleOnly(1)

\* the angle snap selects for the trim of the level of scale s at the last
\* snapped position
SelectedAngle(s) ==
    LET dx == camera_last_position[1] - FloorOnGrid(camera_last_position[1], 2 * s)
        dz == camera_last_position[2] - FloorOnGrid(camera_last_position[2], 2 * s)
    IN  IF dx < s * FX
        THEN (IF dz < s * FX THEN 180 ELSE 90)
        ELSE (IF dz < s * FX THEN 270 ELSE 0)

\* the basis of a yaw by minus a degrees followed by a scale by (s, 1, s)
YawThenScale(a, s) ==
    LET c == CASE a = 0 -> 1 [] a = 90 -> 0 [] a = 180 -> 0 - 1 [] a = 270 -> 0
        m == CASE a = 0 -> 0 [] a = 90 -> 0 - 1 [] a = 180 -> 0 [] a = 270 -> 1
    IN  << << s * c, 0, s * m >>, << 0, 1, 0 >>, << 0 - s * m, 0, s * c >> >>

\* C18: after a snap, for every level l below the last, the trim of level l
\* has the basis of a yaw by minus the selected angle followed by a scale by
\* (2^l, 1, 2^l) and the origin floor(p / 2^l) * 2^l + (2^l, 0, 2^l) * 0.5;
\* the last level has no trim: there are mesh_lods - 1 trims in all.
C18_TrimTransform ==
    Snapped =>
        /\ Len(data.trims) = mesh_lods - 1
        /\ Cardinality({r \in 1..Len(rs_instances) : rs_instances[r].base = meshes[TRIM + 1]})
              = mesh_lods - 1
        /\ \A l \in 0..(mesh_lods - 2) :
              LET s == 2 ^ l
                  t == TransformOf(data.trims[l + 1])
              IN  /\ t.basis = YawThenScale(SelectedAngle(s), s)
                  /\ t.origin = << FloorOnGrid(camera_last_position[1], s) + (s * FX) \div 2,
                                   0,
                                   FloorOnGrid(camera_last_position[2], s) + (s * FX) \div 2 >>

\* a snap at (2,0,0): the trim of level 0 is turned by 180 degrees about the
\* centre (2.5, 0, 0.5) of its cell, that of level 1 by 270 degrees
C18_Witness ==
    /\ Snapped
    /\ last_op = "update"
    /\ camera_last_position = << 2 * FX, 0 >>
    /\ TransformOf(data.trims[1]).origin = << 2 * FX + 5, 0, 5 >>
    /\ TransformOf(data.trims[1]).basis = << << 0 - 1, 0, 0 >>, << 0, 1, 0 >>, << 0, 0, 0 - 1 >> >>
    /\ TransformOf(data.trims[2]).basis = << << 0, 0, 2 >>, << 0, 1, 0 >>, << 0 - 2, 0, 0 >> >>

\* C19: after a snap, for every level l below the last, the seam of level l
\* is scaled by (2^l, 1, 2^l), not rotated, and has the origin
\* floor(p / 2^(l+1)) * 2^(l+1) - (n, 0, n) with n = mesh_size * 2^(l+1); the
\* last level has no seam.
C19_SeamTransform ==
    Snapped =>
        /\ Len(data.seams) = mesh_lods - 1
        /\ \A l \in 0..(mesh_lods - 2) :
              LET s == 2 ^ l
                  n == mesh_size * 2 ^ (l + 1)
                  t == TransformOf(data.seams[l + 1])
              IN  /\ t.basis = << << s, 0, 0 >>, << 0, 1, 0 >>, << 0, 0, s >> >>
                  /\ t.origin = << FloorOnGrid(camera_last_position[1], 2 * s) - n * FX,
                                   0,
                                   FloorOnGrid(camera_last_position[2], 2 * s) - n * FX >>

\* a snap at (1,0,1): the seam of level 0 stays on the grid of level 1, at
\* (-96, 0, -96)
C19_Witness ==
    /\ Snapped
    /\ last_op = "update"
    /\ camera_last_position = << FX, FX >>
    /\ mesh_size = 48
    /\ TransformOf(data.fillers[1]).origin = << FX, 0, FX >>
    /\ TransformOf(data.seams[1]).origin = << 0 - 96 * FX, 0, 0 - 96 * FX >>

\* C20: with T the tile resolution, the tile mesh has (T + 1)^2 vertices,
\* vertex number y * (T + 1) + x at (x, 0, y); its index buffer holds, for the
\* quads (x, y) in row-major order (y outer, x inner), the triangles
\* (tl, br, bl) and (tl, tr, br) with tl = (x, y), tr = (x + 1, y),
\* bl = (x, y + 1), br = (x + 1, y + 1), and nothing else; every unit cell of
\* the T x T grid holds exactly two triangles.
C20_TileMesh ==
    g_phase = "done" =>
        LET m == Returned(TILE)
            T == g_size
            P == g_size + 1
        IN  /\ Len(m.vertices) = P * P
            /\ \A x \in 0..T, y \in 0..T :
                  m.vertices[y * P + x + 1] = << x * FX, 0, y * FX >>
            /\ NumTriangles(m) = 2 * T * T
            /\ Len(m.indices) = 3 * NumTriangles(m)
            /\ \A x \in 0..(T - 1), y \in 0..(T - 1) :
                  LET q == y * T + x
                      tl == y * P + x
                      tr == y * P + x + 1
                      bl == (y + 1) * P + x
                      br == (y + 1) * P + x + 1
                  IN  /\ Triangle(m, 2 * q + 1) = << tl, br, bl >>
                      /\ Triangle(m, 2 * q + 2) = << tl, tr, br >>
                      /\ TrianglesIn(m, << x, y >>, 1..NumTriangles(m)) = {2 * q + 1, 2 * q + 2}
            /\ \A k \in 1..NumTriangles(m) : TriangleOk(m, k)

\* the tile of resolution 2: its last quad (1, 1) ends with the triangle
\* (4, 5, 8)
C20_Witness ==
    /\ g_phase = "done"
    /\ g_size = 2
    /\ Len(Returned(TILE).vertices) = 9
    /\ Triangle(Returned(TILE), 8) = << 4, 5, 8 >>

\* the triangles of the filler whose three vertices lie in the vertex span
\* of arm a (0: +X, 1: +Z, 2: -X, 3: -Z), each span holding 2 * (T + 1) vertices
ArmTriangles(m, a, T) ==
    {k \in 1..NumTriangles(m) :
        \A j \in 1..3 : Triangle(m, k)[j] \div (2 * (T + 1)) = a}

\* the unit cell of quad j (0-based, outwards) of arm a
ArmCell(a, j, T) ==
    CASE a = 0 -> << T + 1 + j, 0 >>
      [] a = 1 -> << 0, T + 1 + j >>
      [] a = 2 -> << 0 - (T + 1 + j), 0 >>
      [] a = 3 -> << 0, 0 - (T + 1 + j) >>

\* every triangle of the filler is a half of a unit cell and uses the
\* vertices of one arm only
FillerArmsApart(m, T) ==
    /\ Len(m.vertices) = 8 * (T + 1)
    /\ \A k \in 1..NumTriangles(m) :
          /\ TriangleOk(m, k)
          /\ \E a \in 0..3 : k \in ArmTriangles(m, a, T)

\* C21 as stated: the filler is four strips of one quad's width, each
\* tileResolution + 1 quads long, and every triangle uses vertices of a
\* single arm.
C21_FillerArmsOfPatchVertLength ==
    g_phase = "done" =>
        LET m == Returned(FILLER)
            T == g_size
        IN  /\ FillerArmsApart(m, T)
            /\ \A a \in 0..3 : Cardinality(ArmTriangles(m, a, T)) = 2 * (T + 1)

\* C21: the filler is four strips of one quad's width along +X, +Z, -X and
\* -Z, each built from its own span of tileResolution + 1 vertex pairs and
\* tileResolution quads long: arm a holds two triangles in each of its
\* tileResolution cells and none elsewhere, and every triangle uses vertices
\* of a single arm.
C21_FillerArms ==
    g_phase = "done" =>
        LET m == Returned(FILLER)
            T == g_size
        IN  /\ FillerArmsApart(m, T)
            /\ \A a \in 0..3 :
                  /\ Cardinality(ArmTriangles(m, a, T)) = 2 * T
                  /\ \A j \in 0..(T - 1) :
                        Cardinality(TrianglesIn(m, ArmCell(a, j, T), ArmTriangles(m, a, T))) = 2

\* the filler of resolution 2: the first quad of the +Z arm starts with the
\* triangle (7, 6, 8)
C21_Witness ==
    /\ g_phase = "done"
    /\ g_size = 2
    /\ Len(Returned(FILLER).indices) = 48
    /\ Triangle(Returned(FILLER), 5) = << 7, 6, 8 >>

\* the i-th point of edge k of the square [0, C] x [0, C], clockwise from the
\* north edge
PerimeterPoint(k, i, C) ==
    CASE k = 0 -> << i * FX, 0, 0 >>
      [] k = 1 -> << C * FX, 0, i * FX >>
      [] k = 2 -> << (C - i) * FX, 0, C * FX >>
      [] k = 3 -> << 0, 0, (C - i) * FX >>

\* C22: with C = 4 * tileResolution + 2, the seam mesh has 4 * C vertices and
\* slot k * C + i holds the i-th point of edge k of the perimeter of the
\* square [0, C] x [0, C], for k in 0..3 and i in [0, C): every slot is
\* written and no edge overwrites a slot of another.
C22_SeamPerimeter ==
    g_phase = "done" =>
        LET m == Returned(SEAM)
            C == 4 * g_size + 2
        IN  /\ Len(m.vertices) = 4 * C
            /\ \A k \in 0..3, i \in 0..(C - 1) :
                  m.vertices[k * C + i + 1] = PerimeterPoint(k, i, C)

\* the vertices of the X strip of the cross (the first half of the buffer)
\* and of its Z strip (the second half)
CrossStrip(m, z_strip) ==
    LET h == Len(m.vertices) \div 2
    IN  {m.vertices[k + (IF z_strip THEN h ELSE 0)] : k \in 1..h}

\* the least and the greatest of a set of numbers
Extent(S) == << CHOOSE a \in S : \A b \in S : a <= b, CHOOSE a \in S : \A b \in S : a >= b >>

\* C23 as stated: the cross is two strips of width 1 whose vertices span from
\* -2 * (tileResolution + 1) to 2 * (tileResolution + 1) along X (X strip) and
\* along Z (Z strip).
C23_CrossSpansTwicePatchVert ==
    g_phase = "done" =>
        LET m == Returned(CROSS)
            P == g_size + 1
        IN  /\ Extent({v[1] : v \in CrossStrip(m, FALSE)}) = << 0 - 2 * P * FX, 2 * P * FX >>
            /\ Extent({v[3] : v \in CrossStrip(m, FALSE)}) = << 0, FX >>
            /\ Extent({v[3] : v \in CrossStrip(m, TRUE)}) = << 0 - 2 * P * FX, 2 * P * FX >>
            /\ Extent({v[1] : v \in CrossStrip(m, TRUE)}) = << 0, FX >>

\* C23: the cross is two orthogonal strips of width 1 (between 0 and 1 on the
\* other axis) that cross in the unit cell at the origin; the X strip has a
\* vertex at every whole x from -tileResolution to tileResolution + 1 on
\* both of its sides, the Z strip likewise along Z: 2 * (tileResolution + 1)
\* vertex pairs each.
C23_CrossSpan ==
    g_phase = "done" =>
        LET m == Returned(CROSS)
            T == g_size
        IN  /\ Len(m.vertices) = 8 * (T + 1)
            /\ CrossStrip(m, FALSE)
                  = {<< x * FX, 0, z * FX >> : x \in (0 - T)..(T + 1), z \in {0, 1}}
            /\ CrossStrip(m, TRUE)
                  = {<< x * FX, 0, z * FX >> : x \in {0, 1}, z \in (0 - T)..(T + 1)}

\* the cross of resolution 2: its X strip runs from (-2, 0, 0) to (3, 0, 1)
C23_Witness ==
    /\ g_phase = "done"
    /\ g_size = 2
    /\ Returned(CROSS).vertices[1] = << 0 - 2 * FX, 0, 0 >>
    /\ Returned(CROSS).vertices[12] = << 3 * FX, 0, FX >>

\* the tile, filler, trim and cross meshes generate builds for each tile
\* resolution a terrain uses
MeshOf ==
    [b \in {TILE, FILLER, TRIM, CROSS}, T \in {cfg[1] : cfg \in Configs} |->
        [vertices |-> VertexPhase(b, T).buf, indices |-> IndexPhase(b, T).buf]]

\* the positions <<x, z>> of the corners of triangle k
TriangleCorners(m, k) ==
    LET t == Triangle(m, k)
    IN  {<< m.vertices[t[j] + 1][1], m.vertices[t[j] + 1][3] >> : j \in 1..3}

\* the corner of a set of positions that is lowest on both axes, if any
LowCorner(ps) == CHOOSE p \in ps : \A r \in ps : p[1] <= r[1] /\ p[2] <= r[2]

\* triangles 2q - 1 and 2q are the two halves of one unit quad: three
\* corners of the quad each, the diagonal in common
HalvesOfQuad(m, q) ==
    LET a == TriangleCorners(m, 2 * q - 1)
        b == TriangleCorners(m, 2 * q)
        lo == LowCorner(a \cup b)
    IN  /\ a \cup b = {lo, << lo[1] + FX, lo[2] >>, << lo[1], lo[2] + FX >>,
                       << lo[1] + FX, lo[2] + FX >>}
        /\ Cardinality(a) = 3
        /\ Cardinality(b) = 3
        /\ \E p \in a \cap b, r \in a \cap b : p[1] # r[1] /\ p[2] # r[2]

\* the unit quads of a mesh in its own coordinates, by lower corner
QuadsOf ==
    [b \in {TILE, FILLER, TRIM, CROSS}, T \in {cfg[1] : cfg \in Configs} |->
        {LowCorner(TriangleCorners(MeshOf[b, T], 2 * q)
                   \cup TriangleCorners(MeshOf[b, T], 2 * q - 1)) :
            q \in 1..(NumTriangles(MeshOf[b, T]) \div 2)}]

\* the mesh is its unit quads, each cut into two triangles, no two on the
\* same cell
QuadsOk ==
    [b \in {TILE, FILLER, TRIM, CROSS}, T \in {cfg[1] : cfg \in Configs} |->
        LET m == MeshOf[b, T]
        IN  /\ NumTriangles(m) % 2 = 0
            /\ Len(m.indices) = 3 * NumTriangles(m)
            /\ \A q \in 1..(NumTriangles(m) \div 2) : HalvesOfQuad(m, q)
            /\ 2 * Cardinality(QuadsOf[b, T]) = NumTriangles(m)]

\* the mesh a stored mesh of role b was created from
IsMeshOf(b) == rs_meshes[meshes[b + 1]].block = b /\ rs_meshes[meshes[b + 1]].size = mesh_size

\* where a transform puts a point <<x, z>> of the ground plane
PlacedXz(t, v) ==
    << t.basis[1][1] * v[1] + t.basis[1][3] * v[2] + t.origin[1],
       t.basis[3][1] * v[1] + t.basis[3][3] * v[2] + t.origin[3] >>

\* the lower corner of the square a transform turns the unit quad at q into
PlacedQuad(t, q) ==
    LET a == PlacedXz(t, q)
        b == PlacedXz(t, << q[1] + FX, q[2] + FX >>)
    IN  << Min2(a[1], b[1]), Min2(a[2], b[2]) >>

\* the cells of side w between lo and hi on one axis, by lower bound
CellsBetween(lo, hi, w) == {lo + i * w : i \in 0..((hi - lo) \div w - 1)}

\* the strip of cells of side 2^l between the footprint of ring l (from its
\* corner tiles) and the hole of ring l + 1 (from the corner tiles of that
\* ring), for one level below the last
TrimGap(l) ==
    LET w == (2 ^ l) * FX
        T == mesh_size
        f_lo == TransformOf(data.tiles[TileSlot(l, 0, 0) + 1]).origin
        f_hi == TransformOf(data.tiles[TileSlot(l, 3, 3) + 1]).origin
        h_lo == TransformOf(data.tiles[TileSlot(l + 1, 0, 0) + 1]).origin
        h_hi == TransformOf(data.tiles[TileSlot(l + 1, 3, 3) + 1]).origin
        \* per axis: low and high bound of the footprint and of the hole
        F == [a \in {1, 3} |-> << f_lo[a], f_hi[a] + T * w >>]
        H == [a \in {1, 3} |-> << h_lo[a] + 2 * T * w, h_hi[a] >>]
        \* the column (row) of the hole the footprint leaves free on an axis
        free(a) == IF F[a][1] = H[a][1] THEN F[a][2] ELSE H[a][1]
    IN  [fits |-> \A a \in {1, 3} :
                     /\ F[a][2] - F[a][1] = (4 * T + 1) * w
                     /\ H[a][2] - H[a][1] = (4 * T + 2) * w
                     /\ F[a][1] = H[a][1] \/ F[a][2] = H[a][2],
         cells |-> {<< free(1), z >> : z \in CellsBetween(H[3][1], H[3][2], w)}
                   \cup {<< x, free(3) >> : x \in CellsBetween(H[1][1], H[1][2], w)}]

\* C24: after a snap, for every level l below the last, the footprint of
\* ring l (4T + 1 cells of side 2^l wide) lies in a corner of the hole of
\* ring l + 1 (4T + 2 such cells wide), and the quads of the trim mesh, placed
\* by the trim transform of level l, are exactly the cells of the L-shaped
\* strip between the two, each covered by one quad: no cell of the strip is
\* left out and no quad reaches into ring l or ring l + 1.
C24_TrimFillsGap ==
    (Snapped /\ last_op = "update") =>
        LET quads == QuadsOf[TRIM, mesh_size]
        IN  /\ IsMeshOf(TRIM)
            /\ QuadsOk[TRIM, mesh_size]
            /\ Cardinality(quads) = 2 * (4 * mesh_size + 2) - 1
            /\ \A l \in 0..(mesh_lods - 2) :
                  LET t == TransformOf(data.trims[l + 1])
                      gap == TrimGap(l)
                      placed == {PlacedQuad(t, q) : q \in quads}
                  IN  /\ gap.fits
                      /\ placed = gap.cells
                      /\ Cardinality(placed) = Cardinality(quads)

\* a snap at (1,0,0): ring 0 lies in the corner of the hole of ring 1 that is
\* high on X and low on Z, and the trim is turned by 270 degrees
C24_Witness ==
    /\ Snapped
    /\ last_op = "update"
    /\ camera_last_position = << FX, 0 >>
    /\ TransformOf(data.tiles[1]).origin[1] = TransformOf(data.tiles[17]).origin[1] + (2 * mesh_size + 1) * FX
    /\ TransformOf(data.tiles[1]).origin[3] = TransformOf(data.tiles[17]).origin[3] + 2 * mesh_size * FX
    /\ << 0 - 2 * mesh_size * FX, 0 - 2 * mesh_size * FX >>
          \in {PlacedQuad(TransformOf(data.trims[1]), q) : q \in QuadsOf[TRIM, mesh_size]}

\* C25: after a snap at p, with s = floor(p) and T the tile resolution, the
\* square [s - 2T, s + 2T + 1] on X and Z is covered exactly once by the
\* quads of the 16 tiles of level 0, of the cross and of the filler of
\* level 0: the 16 tiles are T x T blocks of unit quads that lie on the unit
\* grid inside the square and do not overlap, the quads of cross and filler
\* lie on distinct cells of the square outside every tile, and together they
\* are as many quads as the square has cells.
C25_LevelZeroCovered ==
    (Snapped /\ last_op = "update") =>
        LET T == mesh_size
            lo == << FloorOnGrid(camera_last_position[1], 1) - 2 * T * FX,
                     FloorOnGrid(camera_last_position[2], 1) - 2 * T * FX >>
            side == (4 * T + 1) * FX
            blocks == {PlacedXz(TransformOf(data.tiles[k]), << 0, 0 >>) : k \in 1..16}
            strip == {PlacedQuad(TransformOf(data.cross), q) : q \in QuadsOf[CROSS, T]}
                     \cup {PlacedQuad(TransformOf(data.fillers[1]), q) : q \in QuadsOf[FILLER, T]}
            inside(c, w) == \A a \in 1..2 :
                                /\ c[a] >= lo[a]
                                /\ c[a] + w <= lo[a] + side
                                /\ (c[a] - lo[a]) % FX = 0
            apart(c, w, b) == \E a \in 1..2 : c[a] + w <= b[a] \/ b[a] + T * FX <= c[a]
        IN  /\ IsMeshOf(TILE) /\ IsMeshOf(CROSS) /\ IsMeshOf(FILLER)
            /\ QuadsOk[TILE, T] /\ QuadsOk[CROSS, T] /\ QuadsOk[FILLER, T]
            /\ QuadsOf[TILE, T] = {<< x * FX, z * FX >> : x \in 0..(T - 1), z \in 0..(T - 1)}
            /\ \A k \in 1..16 : TransformOf(data.tiles[k]).basis = ScaleOnly(1)
            /\ TransformOf(data.cross).basis = ScaleOnly(1)
            /\ TransformOf(data.fillers[1]).basis = ScaleOnly(1)
            /\ Cardinality(blocks) = 16
            /\ \A b \in blocks :
                  /\ inside(b, T * FX)
                  /\ \A c \in blocks : c = b \/ apart(c, T * FX, b)
            /\ Cardinality(strip) = Cardinality(QuadsOf[CROSS, T]) + Cardinality(QuadsOf[FILLER, T])
            /\ \A c \in strip : inside(c, FX) /\ \A b \in blocks : apart(c, FX, b)
            /\ 16 * T * T + Cardinality(strip) = (4 * T + 1) * (4 * T + 1)

\* a snap at (0.3, 0, 0.3): the cross covers the cell of the camera and the
\* filler the cell at the far end of the strip along X
C25_Witness ==
    /\ Snapped
    /\ last_op = "update"
    /\ camera_last_position = << 3, 3 >>
    /\ << 0, 0 >> \in {PlacedQuad(TransformOf(data.cross), q) : q \in QuadsOf[CROSS, mesh_size]}
    /\ << 2 * mesh_size * FX, 0 >>
          \in {PlacedQuad(TransformOf(data.fillers[1]), q) : q \in QuadsOf[FILLER, mesh_size]}

\* the value that no camera position comes near
Sentinel == << F32_MAX, F32_MAX >>

\* C26: the last snapped position is the sentinel (the largest float on both
\* axes) from construction until the terrain is built and again at the end
\* of every successful build; a frame of a built terrain that finds the
\* sentinel and reads the position of a camera inside the tree snaps,
\* whatever that position is: it records the camera's X, Z and places the
\* cross at the floor of them.
C26_FirstUpdateSnaps ==
    /\ [](~initialized => camera_last_position = Sentinel)
    /\ [][(~initialized /\ initialized') => camera_last_position' = Sentinel]_vars
    /\ [][(initialized /\ camera_last_position = Sentinel /\ last_op' = "update") =>
             /\ camera_last_position' = << cam_pos'[1], cam_pos'[3] >>
             /\ camera_last_position' # Sentinel
             /\ TransformOf(data.cross)'.origin
                   = << FloorOnGrid(cam_pos'[1], 1), 0, FloorOnGrid(cam_pos'[3], 1) >>
             /\ TransformOf(data.tiles[1])'.origin
                   = << FloorOnGrid(cam_pos'[1], 1) - 2 * mesh_size * FX, 0,
                        FloorOnGrid(cam_pos'[3], 1) - 2 * mesh_size * FX >>]_vars

\* the first update of a built terrain, with the camera at the origin
C26_Witness ==
    /\ initialized
    /\ last_op = "update"
    /\ cam_pos = << 0, 0, 0 >>
    /\ camera_last_position = << 0, 0 >>
    /\ TransformOf(data.tiles[1]).origin = << 0 - 2 * mesh_size * FX, 0, 0 - 2 * mesh_size * FX >>

\* C27: on a built terrain, a frame that has no valid camera stored and ends
\* its search with none stored changes no instance transform and not the
\* last snapped position, and turns per-frame processing off; a frame that
\* reads no camera position (no camera, or a camera outside the tree) snaps
\* nothing; and while processing is off no step changes a transform or the
\* last snapped position.
C27_NoCameraNoSnap ==
    /\ [][(initialized /\ camera # "valid" /\ camera' = "none" /\ last_op' = "frame") =>
             ~processing']_vars
    /\ [][(initialized /\ last_op' = "frame") =>
             /\ rs_instances' = rs_instances
             /\ camera_last_position' = camera_last_position]_vars
    /\ [][(initialized /\ ~processing) =>
             /\ rs_instances' = rs_instances
             /\ camera_last_position' = camera_last_position]_vars

\* a terrain that had snapped, lost its camera and found none in the next
\* frame
C27_Witness ==
    /\ Snapped
    /\ last_op = "frame"
    /\ camera = "none"
    /\ ~processing


\* the set_transform calls of one snap at p, in program order
CallsOfSnap(p) == Concat(SnapCalls(p, data, mesh_size, mesh_lods))

\* the indexes a snap passes for one list, in program order
IndexesInto(calls, name) ==
    LET at == SelectSeq(calls, LAMBDA c : c.list = name)
    IN  [k \in 1..Len(at) |-> at[k].idx]

\* 0, 1, ..., n - 1
Counting(n) == [k \in 1..n |-> k - 1]

\* C28: in a built terrain of L >= 1 levels one snap sets the transform of
\* every instance exactly once: the tile counter visits 0 .. 12 * L + 3 in
\* order and ends at the length of the tile list, the edge counter ends at
\* L - 1, the length of the trim and of the seam list, the fillers are indexed
\* by level, and no index is out of range.
C28_SnapVisitsEveryInstanceOnce ==
    initialized =>
        LET calls == CallsOfSnap(cam_pos)
            L == mesh_lods
            target(c) == ListOf(data, c.list)[c.idx + 1]
        IN  /\ L >= 1
            /\ IndexesInto(calls, "tiles") = Counting(12 * L + 4)
            /\ Len(data.tiles) = 12 * L + 4
            /\ IndexesInto(calls, "trims") = Counting(L - 1)
            /\ IndexesInto(calls, "seams") = Counting(L - 1)
            /\ Len(data.trims) = L - 1
            /\ Len(data.seams) = L - 1
            /\ IndexesInto(calls, "fillers") = Counting(L)
            /\ Len(data.fillers) = L
            /\ IndexesInto(calls, "cross") = << 0 >>
            /\ \A k \in 1..Len(calls) : calls[k].idx < Len(ListOf(data, calls[k].list))
            /\ Len(calls) = Len(rs_instances)
            /\ \A r \in 1..Len(rs_instances) :
                   Cardinality({k \in 1..Len(calls) : target(calls[k]) = r}) = 1
            /\ Snap(rs_instances, data, cam_pos, mesh_size, mesh_lods).ok

\* a snap that has placed the last tile, trim, seam and filler of a terrain
C28_Witness ==
    /\ Snapped
    /\ last_op = "update"
    /\ camera_last_position = << 0, FX >>
    /\ rs_instances[data.tiles[12 * mesh_lods + 4]].transform # DefaultTransform
    /\ rs_instances[data.trims[mesh_lods - 1]].transform # DefaultTransform
    /\ rs_instances[data.seams[mesh_lods - 1]].transform # DefaultTransform
    /\ rs_instances[data.fillers[mesh_lods]].transform # DefaultTransform


\* C29: after every frame update of a built terrain whose camera is inside
\* the tree, whatever the moves before it, the distance on X and Z between
\* camera_last_position and that frame's camera position is at most 0.2, the
\* instance transforms are those snap computes for camera_last_position, and
\* so the origin of the cross differs from the floor of the camera position
\* by at most 1 on each axis.
C29_LastSnapNearCamera ==
    (initialized /\ last_op = "update") =>
        LET dx == camera_last_position[1] - cam_pos[1]
            dz == camera_last_position[2] - cam_pos[3]
            at == << camera_last_position[1], 0, camera_last_position[2] >>
            o == rs_instances[data.cross].transform.origin
            ox == o[1] - FloorOnGrid(cam_pos[1], 1)
            oz == o[3] - FloorOnGrid(cam_pos[3], 1)
        IN  /\ dx * dx + dz * dz <= SnapThreshold * SnapThreshold
            /\ Snap(rs_instances, data, at, mesh_size, mesh_lods).inst = rs_instances
            /\ ox \in {0 - FX, 0, FX}
            /\ oz \in {0 - FX, 0, FX}

\* a frame update that left the terrain where it was, the camera having moved
\* a tenth back across a whole unit
C29_Witness ==
    /\ initialized
    /\ last_op = "update"
    /\ camera_last_position = << FX, 0 >>
    /\ cam_pos = << FX - 1, 0, 0 >>
    /\ rs_instances[data.cross].transform.origin = << FX, 0, 0 >>


\* the selector read off the parities of floor(x / s) and floor(z / s)
ParitySelector(x, z, s) ==
    (IF (FloorOnGrid(x, s) \div (s * FX)) % 2 = 0 THEN 2 ELSE 0)
    + (IF (FloorOnGrid(z, s) \div (s * FX)) % 2 = 0 THEN 1 ELSE 0)

\* C30: for the camera position of any snap and every level l with a trim,
\* scale = 2^l: snapped_pos - next_snapped_pos is 0 or scale on each of X and
\* Z, d = p - next_snapped_pos lies in [0, 2 * scale) on both, the selector
\* bit of an axis is set (d < scale) exactly when snapped_pos equals
\* next_snapped_pos on that axis, and so the rotation of the trim depends only
\* on the parities of floor(p.x / scale) and floor(p.z / scale).
C30_TrimSelectorParity ==
    Snapped =>
        \A l \in 0..(mesh_lods - 2) :
            LET s == 2 ^ l
                p == << camera_last_position[1], 0, camera_last_position[2] >>
                snapped_pos == TransformOf(data.fillers[l + 1]).origin
                next_snapped_pos == TransformOf(data.fillers[l + 2]).origin
                d == Sub3(p, next_snapped_pos)
                r == TrimSelector(d, s)
            IN  /\ snapped_pos[1] - next_snapped_pos[1] \in {0, s * FX}
                /\ snapped_pos[3] - next_snapped_pos[3] \in {0, s * FX}
                /\ d[1] >= 0 /\ d[1] < 2 * s * FX
                /\ d[3] >= 0 /\ d[3] < 2 * s * FX
                /\ (r \div 2 = 1) <=> (d[1] < s * FX)
                /\ (r % 2 = 1) <=> (d[3] < s * FX)
                /\ (r \div 2 = 1) <=> (snapped_pos[1] = next_snapped_pos[1])
                /\ (r % 2 = 1) <=> (snapped_pos[3] = next_snapped_pos[3])
                /\ r = ParitySelector(p[1], p[3], s)
                /\ TransformOf(data.trims[l + 1]).basis
                       = YawThenScale(rotations[ParitySelector(p[1], p[3], s) + 1], s)

\* a snap at (-1,h,-1): every level is a full scale away from the next on
\* both axes
C30_Witness ==
    /\ Snapped
    /\ last_op = "update"
    /\ camera_last_position = << 0 - FX, 0 - FX >>
    /\ TransformOf(data.fillers[1]).origin = << 0 - FX, 0, 0 - FX >>
    /\ TransformOf(data.fillers[2]).origin = << 0 - 2 * FX, 0, 0 - 2 * FX >>
    /\ TransformOf(data.fillers[3]).origin = << 0 - 4 * FX, 0, 0 - 4 * FX >>
    /\ TransformOf(data.trims[1]).basis = ScaleOnly(1)

====
